---------------------------- MODULE Spec2Model ----------------------------
(***************************************************************************)
(* Sonarr_Kodi: the host pool manager (LibraryManager), the remote host    *)
(* client (KodiRPC) it drives, the NFO wait gate and the event handlers.   *)
(*                                                                         *)
(* A host operation is one request/response cycle whose answer is an       *)
(* input: the environment picks the outcome of every call.  A raised       *)
(* Python exception is a value that travels up the call chain until some   *)
(* caller handles it; where the code has no try/except it ends the         *)
(* operation in phase "raised".                                            *)
(***************************************************************************)
EXTENDS Integers, Sequences, FiniteSets, TLC

\* ------------------------------------------------------------- bounds
NumHosts == 4
MaxPasses == 3
\* paths one _wait_for_nfos call waits for
MaxNfos == 2
\* library.nfo_timeout_minuets is drawn from 0..MaxTimeoutMin
MaxTimeoutMin == 1
\* seconds a sleep(1) may take beyond the second asked for
MaxSlip == 1
\* show_id, season and episode number run over 1..MaxField
MaxField == 2
\* configured hosts in the playback and in the handler runs
PoolSize == 2
\* hosts in cfg.hosts at startup
MaxConf == 2
\* hosts.priority is drawn from 0..MaxPriority
MaxPriority == 1

\* -------------------------------------------------- program constants
\* sleep(5) between two passes over the host list
RetryDelay == 5
\* _wait_for_nfos: delay = 1
PollDelay == 1
SecPerMin == 60
\* stop_playback: sleep(2) before the notifications
StopDelay == 2
\* remove_show: for _ in range(3)
RemovePasses == 3

VARIABLES
    hosts,            \* LibraryManager.hosts: the pool, in list order
    library_scanned,  \* KodiRPC.library_scanned, per host
    players,          \* per host: what its player is doing (remote state)
    mop,              \* the LibraryManager method being executed
    mph,              \* its position: before / loop / sleep / after / returned / raised
    idx,              \* index in hosts of the host the loop is at
    passes,           \* completed passes over the host list in this call
    skip,             \* the skip_active argument
    log,              \* requests sent to hosts in this call, in order
    before,           \* episodes_before_scan
    mres,             \* the value the call returned
    exc,              \* the exception that left the call ("none" if none)
    clock,            \* seconds slept by the manager in this call
    cfg,              \* Config: the library and notification settings read
    nfos,             \* _wait_for_nfos: the paths waited for
    files_found,      \* _wait_for_nfos: files_found
    fs,               \* the paths that exist on disk right now
    now,              \* seconds since _wait_for_nfos took `start`
    elapsed,          \* _wait_for_nfos: elapsed, taken at the top of a pass
    gpc,              \* _wait_for_nfos: off / poll / sleep / true / false / raised
    gexc,             \* the exception that left _wait_for_nfos
    reported,         \* the paths named in the "Missing NFO files" warning
    seenEarly,        \* history: paths seen to exist at a poll before the budget ended
    completeAt,       \* history: `now` of the poll that found the last path (-1: none yet)
    store,            \* the file at PICKLE_PATH
    episode,          \* stop_playback / start_playback: the episode argument
    stopped_episodes, \* stop_playback / start_playback: stopped_episodes
    interrupted,      \* history: the playbacks the last persisting stop_playback stopped
    restarted,        \* history: the process restarted since the store was last written
    reads,            \* history: start_playback calls since the store was last written
    hev,              \* the event of this run (env.event_type)
    henv,             \* SonarrEnvironment: the variables the handlers read
    hpc,              \* the handler's position: start / a call site / done / crashed
    hexc,             \* the exception that left the handler
    calls,            \* the LibraryManager calls the handler made, in order
    hloc,             \* the handler's locals
    ea,               \* an EpisodeDetails record
    eb,               \* another EpisodeDetails record
    cmp,              \* what comparing ea and eb gave: ==, hash equality, membership
    watched,          \* ea.watched_state.is_watched, once read
    conf,             \* cfg.hosts: the configured hosts, in configuration order
    reachable,        \* the names of the hosts that answer JSONRPC.Ping
    clients,          \* collect_hosts: client_lst
    probed,           \* history: the names of the hosts that were sent a ping
    ci,               \* collect_hosts: the position of the loop in cfg.hosts
    env_event,        \* os.environ: the value of Sonarr_EventType (None: not set)
    event_type,       \* ENV.event_type
    is_upgrade,       \* ENV.is_upgrade
    mpc,              \* main's position: import / collect / dispatch / a terminal branch
    exit_status,      \* the exit status of the process (None: still running)
    dispatched,       \* the EventHandler method main called ("none": not any)
    disable_notifications, \* KodiRPC.disable_notifications of every host
    shown,            \* the GUI.ShowNotification requests the last call sent
    sclass,           \* the host client class of the scanning run
    busy,             \* host side: a scan this process started is in progress
    si,               \* index of the host the scanning loop is at
    spc,              \* where the scanning loop is
    spass,            \* passes over the hosts the scanning loop has finished
    selapsed,         \* per host: `elapsed` of _wait_for_video_scan
    sseen,            \* per host: the last answer to the is-scanning query
    sout,             \* per host: how scan_series_dir ended
    arg,              \* the arguments of the helper under evaluation
    res,              \* what it returned
    REQ_ID,           \* the class attribute REQ_ID of the host client
    sent              \* the "id" of every request posted so far, in order

poolVars == <<hosts, library_scanned, players, mop, mph, idx, passes, skip,
              log, before, mres, exc, clock>>

gateVars == <<nfos, files_found, fs, now, elapsed, gpc, gexc, reported,
              seenEarly, completeAt>>

playVars == <<store, episode, stopped_episodes, interrupted, restarted, reads>>

handlerVars == <<hev, henv, hpc, hexc, calls, hloc>>

mgrVars == <<mop, mph, idx, passes, skip, log, before, mres, exc, clock>>

modelVars == <<ea, eb, cmp, watched>>

mainVars == <<conf, reachable, clients, probed, ci, env_event, event_type,
              is_upgrade, mpc, exit_status, dispatched>>

notifyVars == <<disable_notifications, shown>>

scanVars == <<sclass, busy, si, spc, spass, selapsed, sseen, sout>>

helperVars == <<arg, res>>

reqVars == <<REQ_ID, sent>>

restVars == <<helperVars, reqVars>>

auxVars == <<modelVars, mainVars, notifyVars, scanVars, restVars>>

vars == <<poolVars, cfg, gateVars, playVars, handlerVars, auxVars>>

\* ------------------------------------------------------------- values
Hosts == 1..NumHosts

\* Python values a host method hands back
None == [t |-> "none"]
Bool(b) == [t |-> "bool", v |-> b]
List(s) == [t |-> "list", v |-> s]
PyInt(n) == [t |-> "int", v |-> n]
Datetime == [t |-> "datetime"]

\* Python truth value testing, as used by `if host.method(...):`
Truthy(r) ==
    CASE r.t = "none" -> FALSE
      [] r.t = "bool" -> r.v
      [] r.t = "list" -> Len(r.v) > 0
      [] r.t = "int" -> r.v # 0
      [] r.t = "datetime" -> TRUE
      [] r.t = "ShowDetails" -> TRUE

Returned(v) == [ret |-> v, exc |-> "none"]
Raised(e) == [ret |-> None, exc |-> e]

\* EpisodeDetails: the fields the model reads
Ep(id, n) == [episode_id |-> id, show_id |-> 1, season |-> 1, episode |-> n]
EpUniverse == {Ep(id, n) : id \in 1..2, n \in 1..2}

\* dataclass(eq=True) with compare=True on show_id, season, episode only
\* WatchedState; resume and date_added play no part in is_watched
WatchedState(play_count, last_played) ==
    [play_count |-> play_count, last_played |-> last_played]

WatchedStates ==
    {WatchedState(c, l) : c \in {None, PyInt(0), PyInt(1), PyInt(2)}, l \in {None, Datetime}}

\* watched as soon as one of the two signs is there
is_watched_either(ws) ==
    (ws.play_count # None /\ ws.play_count.v > 0) \/ Truthy(ws.last_played)

\* WatchedState.is_watched
is_watched(ws) ==
    IF ws.play_count = None THEN FALSE
    ELSE IF ~Truthy(ws.last_played) THEN FALSE
    ELSE Truthy(ws.last_played) /\ ws.play_count.v > 0

\* EpisodeDetails with the fields the host fills in; the titles are carried
\* like file
EpisodeDetails(episode_id, show_id, file, season, n, watched_state) ==
    [episode_id |-> episode_id, show_id |-> show_id, file |-> file,
     season |-> season, episode |-> n, watched_state |-> watched_state]

\* a dataclass comparing every field
EpEqAllFields(a, b) == a = b

\* comparing the host-assigned id instead of the identity fields
EpSameId(a, b) == a.episode_id = b.episode_id

EpEq(a, b) ==
    /\ a.show_id = b.show_id
    /\ a.season = b.season
    /\ a.episode = b.episode

\* `x in lst` for a list of EpisodeDetails
\* __hash__: the tuple of the fields declared hash=True
EpHash(e) == <<e.show_id, e.season, e.episode>>

EpIn(x, lst) == \E i \in 1..Len(lst) : EpEq(lst[i], x)

\* [x for x in after if x not in before]
RECURSIVE NotIn(_, _)
NotIn(after, bef) ==
    IF after = <<>> THEN <<>>
    ELSE IF EpIn(Head(after), bef) THEN NotIn(Tail(after), bef)
         ELSE <<Head(after)>> \o NotIn(Tail(after), bef)

\* episode lists a host may answer a query with
EpLists == {<<>>} \cup {<<e>> : e \in EpUniverse}

\* ------------------------------------------------------ KodiRPC (host)
\* The answer of the host to one method call is an input; the method turns
\* it into a return value or an exception.
ScanOutcomes == {"ok", "APIError", "ScanTimeout"}
ActOutcomes == {"ok", "APIError"}
QueryOutcomes ==
    {[valid |-> FALSE, eps |-> <<>>]} \cup {[valid |-> TRUE, eps |-> l] : l \in EpLists}

\* scan_series_dir / full_video_scan / clean_video_library: annotated -> None.
\* An invalid response raises APIError, _wait_for_video_scan raises APIError
\* or ScanTimeout; otherwise library_scanned is set and None is returned.
scan_series_dir(o) == IF o = "ok" THEN Returned(None) ELSE Raised(o)
full_video_scan(o) == IF o = "ok" THEN Returned(None) ELSE Raised(o)
clean_video_library(o) == IF o = "ok" THEN Returned(None) ELSE Raised(o)

\* remove_episode(episode_id) -> None, raises APIError
host_remove_episode(o) == IF o = "ok" THEN Returned(None) ELSE Raised(o)

\* set_episode_watched_state(episode, new_ep_id) -> None, raises APIError
set_episode_watched_state(o) == IF o = "ok" THEN Returned(None) ELSE Raised(o)

\* get_episodes_from_dir / get_episodes_from_file / get_all_episodes:
\* the parsed list, or APIError when the response is not valid
get_episodes(o) == IF o.valid THEN Returned(List(o.eps)) ELSE Raised("APIError")

\* which of the host methods set library_scanned on success
SetsScanned(method) ==
    method \in {"scan_series_dir", "full_video_scan", "clean_video_library",
                "remove_episode"}

\* an active player of a host: what it plays, whether paused, and where
NoItem == None
Item(type, id) == [t |-> "item", type |-> type, item_id |-> id]
Player(item, paused, position) == [item |-> item, paused |-> paused, position |-> position]

\* the locals of a handler: new_episodes, the list iterated and the index
\* in it, removed_episodes
NoLocals ==
    [new_episodes |-> None, old_eps |-> <<>>, i |-> 0, removed_episodes |-> <<>>, p |-> 0]

\* the file at PICKLE_PATH
NoFile == [exists |-> FALSE, data |-> <<>>]

\* is_playing: len(_get_active_players()) > 0
is_playing(h) == Len(players[h]) > 0

\* ----------------------------------------------------- LibraryManager
ScanOps == {"scan_directory", "full_scan", "clean_library"}
ActOps == ScanOps \cup {"remove_episode", "copy_ep_metadata"}
QueryOps == {"get_episodes_by_dir", "get_episodes_by_file", "show_exists"}

\* the host method each manager loop calls
ActMethod(op) ==
    CASE op = "scan_directory" -> "scan_series_dir"
      [] op = "full_scan" -> "full_video_scan"
      [] op = "clean_library" -> "clean_video_library"
      [] op = "remove_episode" -> "remove_episode"
      [] op = "copy_ep_metadata" -> "set_episode_watched_state"

QueryMethod(op) ==
    CASE op \in {"scan_directory", "get_episodes_by_dir"} -> "get_episodes_from_dir"
      [] op = "full_scan" -> "get_all_episodes"
      [] op = "get_episodes_by_file" -> "get_episodes_from_file"
      [] op = "show_exists" -> "get_shows_from_dir"

ActCall(method, o) ==
    CASE method = "scan_series_dir" -> scan_series_dir(o)
      [] method = "full_video_scan" -> full_video_scan(o)
      [] method = "clean_video_library" -> clean_video_library(o)
      [] method = "remove_episode" -> host_remove_episode(o)
      [] method = "set_episode_watched_state" -> set_episode_watched_state(o)

ActOutcomesOf(method) ==
    IF method \in {"remove_episode", "set_episode_watched_state"}
    THEN ActOutcomes ELSE ScanOutcomes

\* the phase a call starts in
FirstPhase(op) ==
    IF op \in {"scan_directory", "full_scan"} \cup QueryOps THEN "before"
    ELSE IF op = "remove_show" THEN "rs_query"
    ELSE "loop"

QueryTag(o) == IF o.valid THEN "list" ELSE "APIError"

Ended == mph \in {"returned", "raised"}

\* a caller invokes LibraryManager.<op>(..., skip_active = sk)
Invoke(op, sk) ==
    /\ mop' = op
    /\ mph' = FirstPhase(op)
    /\ idx' = 1
    /\ passes' = 0
    /\ skip' = sk
    /\ log' = <<>>
    /\ before' = <<>>
    /\ mres' = None
    /\ exc' = "none"
    /\ clock' = 0

\* the exception leaves the LibraryManager method: none of them has a handler
Propagate(e) ==
    /\ mph' = "raised"
    /\ exc' = e
    /\ UNCHANGED <<mop, idx, passes, skip, before, mres, clock>>

\* get_episodes_by_dir / get_episodes_by_file / _get_all_episodes: one host
\* of `for host in self.hosts`, as the method itself or as the query before
\* and after a scan
QueryFinish(lst) ==
    IF mop \in QueryOps
    THEN /\ mres' = List(lst)
         /\ mph' = "returned"
         /\ UNCHANGED <<idx, before>>
    ELSE IF mph = "before"
    THEN /\ before' = lst
         /\ mph' = "loop"
         /\ idx' = 1
         /\ UNCHANGED mres
    ELSE /\ mres' = List(NotIn(lst, before))
         /\ mph' = "returned"
         /\ UNCHANGED <<idx, before>>

QueryVisit ==
    /\ mph \in {"before", "after"}
    /\ idx <= Len(hosts)
    /\ \E o \in QueryOutcomes :
        LET r == get_episodes(o) IN
        /\ log' = Append(log, [host |-> hosts[idx], method |-> QueryMethod(mop),
                               out |-> QueryTag(o), eps |-> o.eps])
        /\ IF r.exc # "none"
           THEN Propagate(r.exc)
           ELSE /\ IF Truthy(r.ret) THEN QueryFinish(r.ret.v)
                   ELSE IF idx = Len(hosts) THEN QueryFinish(<<>>)
                   ELSE /\ idx' = idx + 1
                        /\ UNCHANGED <<mph, before, mres>>
                /\ UNCHANGED <<mop, passes, skip, exc, clock>>
    /\ UNCHANGED <<hosts, library_scanned, players, cfg, gateVars, playVars, handlerVars, auxVars>>

\* the loop body found nothing to stop for: next host, or the end of the pass
NextHost ==
    IF idx < Len(hosts)
    THEN /\ idx' = idx + 1
         /\ UNCHANGED <<mph, mres>>
    ELSE IF mop \in ScanOps
    THEN /\ mph' = "sleep"
         /\ UNCHANGED <<idx, mres>>
    ELSE /\ mres' = Bool(FALSE)
         /\ mph' = "returned"
         /\ UNCHANGED idx

\* `if host.method(...):` was true
Succeeded ==
    IF mop \in {"scan_directory", "full_scan"}
    THEN /\ mph' = "after"
         /\ idx' = 1
         /\ UNCHANGED mres
    ELSE IF mop = "clean_library"
    THEN /\ mres' = None
         /\ mph' = "returned"
         /\ UNCHANGED idx
    ELSE /\ mres' = Bool(TRUE)
         /\ mph' = "returned"
         /\ UNCHANGED idx

\* one host of the loop of scan_directory, full_scan, clean_library,
\* remove_episode or copy_ep_metadata
ActVisit ==
    /\ mph = "loop"
    /\ mop \in ActOps
    /\ idx <= Len(hosts)
    /\ LET h == hosts[idx]
           m == ActMethod(mop) IN
       IF mop \in ScanOps /\ skip /\ is_playing(h)
       THEN /\ NextHost
            /\ UNCHANGED <<library_scanned, log, mop, passes, skip, before, exc, clock>>
       ELSE \E o \in ActOutcomesOf(m) :
            LET r == ActCall(m, o) IN
            /\ log' = Append(log, [host |-> h, method |-> m, out |-> o])
            /\ library_scanned' =
                   [library_scanned EXCEPT ![h] = @ \/ (o = "ok" /\ SetsScanned(m))]
            /\ IF r.exc # "none"
               THEN Propagate(r.exc)
               ELSE /\ IF Truthy(r.ret) THEN Succeeded ELSE NextHost
                    /\ UNCHANGED <<mop, passes, skip, before, exc, clock>>
    /\ UNCHANGED <<hosts, players, cfg, gateVars, playVars, handlerVars, auxVars>>

\* no host succeeded in this pass: sleep(5), then all hosts again
RetrySleep ==
    /\ mph = "sleep"
    /\ passes < MaxPasses
    /\ passes' = passes + 1
    /\ clock' = clock + RetryDelay
    /\ idx' = 1
    /\ mph' = "loop"
    /\ UNCHANGED <<hosts, library_scanned, players, mop, skip, log, before, mres, exc>>
    /\ UNCHANGED <<cfg, gateVars, playVars, handlerVars, auxVars>>

\* the hosts whose library_scanned is set
hosts_scanned == SelectSeq(hosts, LAMBDA h : library_scanned[h])

\* LibraryManager.hosts_not_scanned
hosts_not_scanned == SelectSeq(hosts, LAMBDA h : ~library_scanned[h])

\* KodiRPC.update_gui: nothing is sent when library_scanned is set, else the
\* scan of "/does_not_exist/"; a failed request is only logged
update_gui(h) ==
    IF library_scanned[h] THEN <<>>
    ELSE <<[host |-> h, method |-> "update_gui", out |-> "ok"]>>

\* host.update_gui() on the hosts `hs`, in order
RECURSIVE UpdateGuisOn(_)
UpdateGuisOn(hs) ==
    IF hs = <<>> THEN <<>> ELSE update_gui(Head(hs)) \o UpdateGuisOn(Tail(hs))

\* update_guis: host.update_gui() on every host of hosts_not_scanned
update_guis ==
    /\ mop' = "update_guis"
    /\ mph' = "returned"
    /\ idx' = 1
    /\ passes' = 0
    /\ skip' = FALSE
    /\ log' = UpdateGuisOn(hosts_not_scanned)
    /\ before' = <<>>
    /\ mres' = None
    /\ exc' = "none"
    /\ clock' = 0

\* ------------------------------------------- LibraryManager.remove_show
\* ShowDetails: a dataclass object
ShowDetails(show_id) == [t |-> "ShowDetails", show_id |-> show_id]

\* show lists a host may answer get_shows_from_dir with
ShowLists == {<<>>, <<ShowDetails(1)>>, <<ShowDetails(1), ShowDetails(2)>>}

ShowOutcomes ==
    {[valid |-> FALSE, shows |-> <<>>]} \cup {[valid |-> TRUE, shows |-> l] : l \in ShowLists}

\* KodiRPC.get_shows_from_dir: the parsed list, or APIError when the response
\* is not valid
get_shows_from_dir(o) == IF o.valid THEN Returned(List(o.shows)) ELSE Raised("APIError")

\* KodiRPC.remove_tvshow(show_id): get_show_from_id(show_id) puts show_id
\* into the request parameters, and json.dumps in _req raises TypeError on
\* anything but a number; an answer that is not OK raises APIError; else the
\* show's details are returned
remove_tvshow(show_id, o) ==
    IF show_id.t # "int" THEN Raised("TypeError")
    ELSE IF o = "ok" THEN Returned(ShowDetails(show_id.v))
    ELSE Raised("APIError")

\* remove_show, `for show in [x for x in shows if x not in removed_shows]`
\* on host h: host.remove_tvshow(show) is given the ShowDetails object
RECURSIVE RemoveOn(_, _, _)
RemoveOn(h, todo, outs) ==
    IF todo = <<>> THEN [removed |-> <<>>, made |-> <<>>, exc |-> "none"]
    ELSE LET show == Head(todo)
             r == remove_tvshow(show, Head(outs))
             c == [host |-> h, method |-> "remove_tvshow", show |-> show.show_id,
                   out |-> IF r.exc # "none" THEN r.exc ELSE "ok"]
         IN IF r.exc # "none"
            THEN [removed |-> <<>>, made |-> <<c>>, exc |-> r.exc]
            ELSE LET q == RemoveOn(h, Tail(todo), Tail(outs)) IN
                 [removed |-> (IF Truthy(r.ret) THEN <<show>> ELSE <<>>) \o q.removed,
                  made |-> <<c>> \o q.made, exc |-> q.exc]

\* a caller invokes LibraryManager.remove_show(series_path)
CallRemoveShow ==
    /\ mop = "idle" \/ Ended
    /\ mop' = "remove_show"
    /\ mph' = "rs_query"
    /\ idx' = 1
    /\ passes' = 0
    /\ skip' = FALSE
    /\ log' = <<>>
    /\ before' = <<>>
    /\ mres' = None
    /\ exc' = "none"
    /\ clock' = 0
    /\ UNCHANGED <<hosts, library_scanned, players, cfg, gateVars, playVars,
                   handlerVars, auxVars>>

\* remove_show, shows = self.get_shows_from_dir(series_path): one host of its
\* loop; `before` holds shows and mres holds removed_shows from then on
RemoveShowQuery ==
    /\ mop = "remove_show"
    /\ mph = "rs_query"
    /\ idx <= Len(hosts)
    /\ \E o \in ShowOutcomes :
        LET r == get_shows_from_dir(o) IN
        /\ log' = Append(log, [host |-> hosts[idx], method |-> "get_shows_from_dir",
                               out |-> QueryTag(o)])
        /\ IF r.exc # "none"
           THEN Propagate(r.exc)
           ELSE /\ IF Truthy(r.ret)
                   THEN /\ before' = r.ret.v
                        /\ mres' = List(<<>>)
                        /\ mph' = "rs_loop"
                        /\ idx' = 1
                   ELSE IF idx = Len(hosts)
                   THEN /\ mres' = List(<<>>)
                        /\ mph' = "returned"
                        /\ UNCHANGED <<idx, before>>
                   ELSE /\ idx' = idx + 1
                        /\ UNCHANGED <<mph, before, mres>>
                /\ UNCHANGED <<mop, passes, skip, exc, clock>>
    /\ UNCHANGED <<hosts, library_scanned, players, cfg, gateVars, playVars,
                   handlerVars, auxVars>>

\* remove_show, one host of `for host in self.hosts` within a pass
RemoveShowVisit ==
    /\ mop = "remove_show"
    /\ mph = "rs_loop"
    /\ LET h == hosts[idx]
           todo == SelectSeq(before, LAMBDA x : \A i \in DOMAIN mres.v : mres.v[i] # x)
       IN \E outs \in [1..Len(todo) -> ActOutcomes] :
            LET r == RemoveOn(h, todo, outs)
                removed == mres.v \o r.removed
            IN /\ log' = log \o r.made
               /\ library_scanned' =
                      [library_scanned EXCEPT ![h] = @ \/ r.removed # <<>>]
               /\ IF r.exc # "none"
                  THEN Propagate(r.exc)
                  ELSE /\ mres' = List(removed)
                       /\ IF Len(before) = Len(removed)
                          THEN /\ mph' = "returned"
                               /\ UNCHANGED <<idx, passes>>
                          ELSE IF idx < Len(hosts)
                          THEN /\ idx' = idx + 1
                               /\ UNCHANGED <<mph, passes>>
                          ELSE IF passes + 1 < RemovePasses
                          THEN /\ passes' = passes + 1
                               /\ idx' = 1
                               /\ UNCHANGED mph
                          ELSE /\ passes' = passes + 1
                               /\ mph' = "returned"
                               /\ UNCHANGED idx
                       /\ UNCHANGED <<mop, skip, before, exc, clock>>
    /\ UNCHANGED <<hosts, players, cfg, gateVars, playVars, handlerVars, auxVars>>

\* ------------------------------------------- the pool, called directly

CallOp ==
    /\ mop = "idle" \/ Ended
    /\ \E op \in ActOps \cup QueryOps, sk \in BOOLEAN :
        /\ sk => op \in ScanOps
        /\ Invoke(op, sk)
    /\ UNCHANGED <<hosts, library_scanned, players, cfg, gateVars, playVars, handlerVars, auxVars>>

\* no LibraryManager call is running
ManagerIdle ==
    /\ mop = "idle"
    /\ mph = "returned"
    /\ idx = 1
    /\ passes = 0
    /\ skip = FALSE
    /\ log = <<>>
    /\ before = <<>>
    /\ mres = None
    /\ exc = "none"
    /\ clock = 0

\* _wait_for_nfos is not running
GateOff ==
    /\ nfos = <<>>
    /\ files_found = {}
    /\ fs = {}
    /\ now = 0
    /\ elapsed = 0
    /\ gpc = "off"
    /\ gexc = "none"
    /\ reported = <<>>
    /\ seenEarly = {}
    /\ completeAt = -1

\* no store on disk, first run
PlayOff ==
    /\ store = NoFile
    /\ episode = None
    /\ stopped_episodes = None
    /\ interrupted = {}
    /\ restarted = FALSE
    /\ reads = 0

\* no handler is running
HandlerOff ==
    /\ hev = "none"
    /\ henv = [episode_file_delete_reason |-> ""]
    /\ hpc = "done"
    /\ hexc = "none"
    /\ calls = <<>>
    /\ hloc = NoLocals

\* no record is under comparison
ModelsOff ==
    /\ ea = None
    /\ eb = None
    /\ cmp = None
    /\ watched = None

\* main is not running
MainOff ==
    /\ conf = <<>>
    /\ reachable = {}
    /\ clients = <<>>
    /\ probed = {}
    /\ ci = 0
    /\ env_event = None
    /\ event_type = "Unknown"
    /\ is_upgrade = FALSE
    /\ mpc = "off"
    /\ exit_status = None
    /\ dispatched = "none"

\* no host has notifications disabled, none has been asked to show one
NotifyOff ==
    /\ disable_notifications = [h \in Hosts |-> FALSE]
    /\ shown = <<>>

\* no scanning loop is running
ScanOff ==
    /\ sclass = "none"
    /\ busy = [h \in Hosts |-> FALSE]
    /\ si = 1
    /\ spc = "off"
    /\ spass = 0
    /\ selapsed = [h \in Hosts |-> 0]
    /\ sseen = [h \in Hosts |-> "none"]
    /\ sout = [h \in Hosts |-> "none"]

\* no helper is under evaluation, no request has been posted
RestOff ==
    /\ arg = None
    /\ res = None
    /\ REQ_ID = 0
    /\ sent = <<>>

AuxOff == ModelsOff /\ MainOff /\ NotifyOff /\ ScanOff /\ RestOff

DefaultCfg ==
    [wait_for_nfo |-> FALSE, nfo_timeout_minuets |-> 0, full_scan_fallback |-> FALSE,
     clean_after_update |-> FALSE, skip_active |-> FALSE,
     on_download_new |-> FALSE, on_delete |-> FALSE,
     on_download_upgrade |-> FALSE, on_rename |-> FALSE,
     on_series_add |-> FALSE, on_series_delete |-> FALSE, on_health_issue |-> FALSE,
     on_health_restored |-> FALSE, on_application_update |-> FALSE,
     on_manual_interaction_required |-> FALSE, on_test |-> FALSE]

InitPool ==
    /\ hosts = [i \in 1..NumHosts |-> i]
    /\ library_scanned = [h \in Hosts |-> FALSE]
    /\ players \in [Hosts -> {<<>>, <<Player(NoItem, FALSE, 10)>>}]
    /\ ManagerIdle
    /\ cfg = DefaultCfg
    /\ GateOff
    /\ PlayOff
    /\ HandlerOff
    /\ AuxOff

\* a caller invokes LibraryManager.update_guis()
UpdateGuis ==
    /\ mop = "idle" \/ Ended
    /\ update_guis
    /\ UNCHANGED <<hosts, library_scanned, players, cfg, gateVars, playVars,
                   handlerVars, auxVars>>

NextPool ==
    \/ CallOp \/ QueryVisit \/ ActVisit \/ RetrySleep \/ UpdateGuis
    \/ CallRemoveShow \/ RemoveShowQuery \/ RemoveShowVisit

SpecPool == InitPool /\ [][NextPool]_vars

\* ------------------------------------------------- claims on the pool
\* the requests of the call's own loop (the scan, clean, remove or set
\* requests), without the episode queries around it
ActReqs == SelectSeq(log, LAMBDA e : e.method \in
               {"scan_series_dir", "full_video_scan", "clean_video_library",
                "remove_episode", "set_episode_watched_state"})

\* C1: scan_directory sends its scan requests to the hosts in list order,
\* a failed host is followed by the next one, and the request to the first
\* host whose scan succeeds is the last request of the call.
C1_OrderedFailover ==
    (mop = "scan_directory" /\ ~skip) =>
        LET s == ActReqs IN
        /\ \A i \in 1..Len(s) : s[i].host = hosts[((i - 1) % Len(hosts)) + 1]
        /\ \A i \in 1..(Len(s) - 1) : s[i].out # "ok"
        /\ (Ended /\ Len(s) > 0) => s[Len(s)].out = "ok"

\* C2: once a host has completed the scan or clean, scan_directory, full_scan
\* and clean_library leave their retry loop: no request follows a success.
C2_ReturnsAfterSuccess ==
    mop \in ScanOps =>
        LET s == ActReqs IN
        \A i \in 1..Len(s) :
            s[i].out = "ok" => (i = Len(s) /\ mph \notin {"loop", "sleep"})

\* C3: while every scan so far has failed, scan_directory has neither
\* returned nor raised: it is still trying.
C3_KeepsTryingWhileFailing ==
    (mop = "scan_directory" /\ Len(ActReqs) > 0
        /\ \A i \in 1..Len(ActReqs) : ActReqs[i].out # "ok")
    => ~Ended

\* C4: no APIError or ScanTimeout of a host leaves a LibraryManager method.
C4_NoErrorEscapes == mph # "raised"

\* ------------------------------------------ EventHandler._wait_for_nfos
\* the expected sidecar files; every one is a PosixPath object
Path(i) == [cls |-> "PosixPath", name |-> i]
Paths == {Path(i) : i \in 1..MaxNfos}

\* lists of distinct paths, as the handlers build them
NfoLists ==
    {<<Path(1)>>} \cup {[i \in 1..n |-> Path(i)] : n \in 1..MaxNfos}

Range(seq) == {seq[i] : i \in 1..Len(seq)}

\* max_sec = (nfo_timeout_minuets * len(nfos)) * 60
MaxSec(c, lst) == (c.nfo_timeout_minuets * Len(lst)) * SecPerMin

\* a loop condition that is off by one
MoreToFindLax(lst, found) == Len(lst) >= Cardinality(found)

\* the loop condition: while len(nfos) > len(files_found)
MoreToFind(lst, found) == Len(lst) > Cardinality(found)

\* ", ".join(items): str.join takes str items only
StrJoin(items) ==
    IF \A i \in 1..Len(items) : items[i].cls = "str"
    THEN Returned(List(items)) ELSE Raised("TypeError")

\* the for loop of one pass over `files`, started with `found`: the files
\* found after it, and whether it ran into the timeout branch
RECURSIVE PollPass(_, _, _, _)
PollPass(files, found, disk, timedOut) ==
    IF files = <<>> THEN [found |-> found, timeout |-> FALSE]
    ELSE IF Head(files) \in found THEN PollPass(Tail(files), found, disk, timedOut)
    ELSE IF Head(files) \in disk
         THEN PollPass(Tail(files), found \cup {Head(files)}, disk, timedOut)
    ELSE IF timedOut THEN [found |-> found, timeout |-> TRUE]
    ELSE PollPass(Tail(files), found, disk, timedOut)

\* the handler calls self._wait_for_nfos(lst)
GateStart(lst) ==
    /\ nfos' = lst
    /\ files_found' = {}
    /\ now' = 0
    /\ elapsed' = 0
    /\ gpc' = IF MoreToFind(lst, {}) THEN "poll" ELSE "true"
    /\ gexc' = "none"
    /\ reported' = <<>>
    /\ seenEarly' = {}
    /\ completeAt' = -1

\* one pass of the while loop body, up to the sleep
GatePoll ==
    /\ gpc = "poll"
    /\ LET e == now
           r == PollPass(nfos, files_found, fs, e >= MaxSec(cfg, nfos))
           j == StrJoin(nfos) IN
       /\ elapsed' = e
       /\ files_found' = r.found
       /\ seenEarly' = IF e < MaxSec(cfg, nfos)
                       THEN seenEarly \cup (r.found \ files_found) ELSE seenEarly
       /\ completeAt' = IF r.found = Range(nfos) /\ files_found # Range(nfos)
                        THEN now ELSE completeAt
       /\ IF r.timeout
          THEN IF j.exc # "none"
               THEN /\ gpc' = "raised"
                    /\ gexc' = j.exc
                    /\ UNCHANGED reported
               ELSE /\ gpc' = "false"
                    /\ reported' = j.ret.v
                    /\ UNCHANGED gexc
          ELSE /\ gpc' = "sleep"
               /\ UNCHANGED <<gexc, reported>>
    /\ UNCHANGED <<nfos, fs, now, cfg, poolVars, playVars, handlerVars, auxVars>>

\* sleep(delay), while files come and go on disk, then the loop condition
GateSleep ==
    /\ gpc = "sleep"
    /\ \E slip \in 0..MaxSlip : now' = now + PollDelay + slip
    /\ fs' \in SUBSET Range(nfos)
    /\ gpc' = IF MoreToFind(nfos, files_found) THEN "poll" ELSE "true"
    /\ UNCHANGED <<nfos, files_found, elapsed, gexc, reported, seenEarly,
                   completeAt, cfg, poolVars, playVars, handlerVars, auxVars>>

GateEnded == gpc \in {"true", "false", "raised"}

\* ------------------------------------------------ playback interruption
Positions == {10, 60}

PlayerUniverse ==
    {Player(NoItem, FALSE, 10), Player(Item("movie", 1), FALSE, 10)}
    \cup {Player(Item("episode", 1), z, p) : z \in BOOLEAN, p \in Positions}
    \cup {Player(Item("episode", 2), TRUE, 60)}

\* a comparison that keeps the case
SameCase(s) == s

\* str.lower() on the strings the model uses
Lower(s) ==
    CASE s = "Upgrade" -> "upgrade"
      [] s = "UPGRADE" -> "upgrade"
      [] s = "Manual" -> "manual"
      [] s = "MissingFromDisk" -> "missingfromdisk"
      [] OTHER -> s

StoppedEpisode(ep, host_name, position, paused) ==
    [episode |-> ep, host_name |-> host_name, position |-> position, paused |-> paused]

\* _serialize: the file is opened "wb" and the list dumped into it
serialize(stopped_eps) == [exists |-> TRUE, data |-> stopped_eps]

\* reading the list without the unlink
deserializeKeep(file) == [data |-> file.data, file |-> file]

\* _deserialize: the list read, and the file afterwards (unlinked)
deserialize(file) == [data |-> file.data, file |-> NoFile]

\* the player requests of a host
active_players(plrs, h) == plrs[h]
get_player_item(p) == p.item
is_paused(p) == p.paused
player_percent(p) == p.position

\* stop_playback, the loop over the players `pl` of host h
RECURSIVE StopOnHost(_, _, _)
StopOnHost(h, pl, ep) ==
    IF pl = <<>> THEN [stopped |-> <<>>, kept |-> <<>>, exc |-> "none"]
    ELSE LET p == Head(pl)
             item == get_player_item(p)
             r == StopOnHost(h, Tail(pl), ep)
             skipped == [r EXCEPT !.kept = <<p>> \o r.kept]
         IN IF item # None /\ Lower(item.type) # "episode" THEN skipped
            ELSE IF item = None
                 THEN [stopped |-> <<>>, kept |-> pl, exc |-> "AttributeError"]
            ELSE IF item.item_id # ep.episode_id THEN skipped
            ELSE [r EXCEPT !.stopped =
                      <<StoppedEpisode(ep, h, player_percent(p), is_paused(p))>>
                      \o r.stopped]

\* stop_playback, the loop over the hosts `hs`
RECURSIVE StopOnHosts(_, _, _)
StopOnHosts(hs, plrs, ep) ==
    IF hs = <<>> THEN [stopped |-> <<>>, players |-> plrs, exc |-> "none"]
    ELSE LET h == Head(hs)
             r == StopOnHost(h, active_players(plrs, h), ep)
             p1 == [plrs EXCEPT ![h] = r.kept]
             q == StopOnHosts(Tail(hs), p1, ep)
         IN IF r.exc # "none"
            THEN [stopped |-> r.stopped, players |-> p1, exc |-> r.exc]
            ELSE [q EXCEPT !.stopped = r.stopped \o q.stopped]

\* stop_playback, the notification loop: host.notify(title, reason, force=True)
RECURSIVE StopNotices(_, _, _)
StopNotices(hs, stopped, reason) ==
    IF hs = <<>> THEN <<>>
    ELSE LET mine == SelectSeq(stopped, LAMBDA e : e.host_name = Head(hs))
         IN [i \in 1..Len(mine) |->
                [host |-> Head(hs), method |-> "notify",
                 title |-> "Sonarr - Stopped Playback", msg |-> reason, force |-> TRUE]]
            \o StopNotices(Tail(hs), stopped, reason)

\* history: the playbacks of `episode` running on the pool's hosts
Playing(ep) ==
    UNION {{[host |-> h, position |-> players[h][i].position,
             paused |-> players[h][i].paused, episode |-> ep] :
               i \in {j \in DOMAIN players[h] :
                        /\ players[h][j].item # None
                        /\ players[h][j].item.type = "episode"
                        /\ players[h][j].item.item_id = ep.episode_id}} :
           h \in Range(hosts)}

\* LibraryManager.stop_playback(episode, reason, store_result)
stop_playback(ep, reason, store_result) ==
    LET r == StopOnHosts(hosts, players, ep)
        stops == [i \in 1..Len(r.stopped) |->
                    [host |-> r.stopped[i].host_name, method |-> "stop_player", out |-> "ok"]]
    IN /\ mop' = "stop_playback"
       /\ episode' = ep
       /\ idx' = 1
       /\ passes' = 0
       /\ skip' = FALSE
       /\ before' = <<>>
       /\ mres' = None
       /\ players' = r.players
       /\ stopped_episodes' = List(r.stopped)
       /\ IF r.exc # "none"
          THEN /\ mph' = "raised"
               /\ exc' = r.exc
               /\ log' = stops
               /\ clock' = 0
               /\ UNCHANGED <<store, interrupted, restarted, reads>>
          ELSE /\ mph' = "returned"
               /\ exc' = "none"
               /\ IF r.stopped = <<>>
                  THEN /\ log' = <<>>
                       /\ clock' = 0
                       /\ UNCHANGED <<store, interrupted, restarted, reads>>
                  ELSE /\ log' = stops \o StopNotices(hosts, r.stopped, reason)
                       /\ clock' = StopDelay
                       /\ IF store_result
                          THEN /\ store' = serialize(r.stopped)
                               /\ interrupted' = Playing(ep)
                               /\ restarted' = FALSE
                               /\ reads' = 0
                          ELSE UNCHANGED <<store, interrupted, restarted, reads>>

\* start_playback, the loop over the stored records `data` for host h;
\* `started` tells whether start_episode gets a player back
RECURSIVE StartOnHost(_, _, _, _)
StartOnHost(h, data, new_ep, started) ==
    IF data = <<>> THEN <<>>
    ELSE LET ep == Head(data)
             rest == StartOnHost(h, Tail(data), new_ep, started)
             player == IF started THEN Bool(TRUE) ELSE None
         IN IF ep.host_name # h THEN rest
            ELSE IF ~EpEq(ep.episode, new_ep) THEN rest
            ELSE <<[host |-> h, method |-> "start_episode",
                    episode_id |-> new_ep.episode_id, position |-> ep.position,
                    out |-> IF started THEN "player" ELSE "none"]>>
                 \o (IF ep.paused /\ Truthy(player)
                     THEN <<[host |-> h, method |-> "pause_player", out |-> "ok"]>>
                     ELSE <<>>)
                 \o rest

\* start_playback, the loop over the hosts `hs`
RECURSIVE StartOnHosts(_, _, _, _)
StartOnHosts(hs, data, new_ep, starts) ==
    IF hs = <<>> THEN <<>>
    ELSE StartOnHost(Head(hs), data, new_ep, starts[Head(hs)])
         \o StartOnHosts(Tail(hs), data, new_ep, starts)

\* LibraryManager.start_playback(episode)
start_playback(new_ep, starts) ==
    /\ mop' = "start_playback"
    /\ episode' = new_ep
    /\ mph' = "returned"
    /\ idx' = 1
    /\ passes' = 0
    /\ skip' = FALSE
    /\ before' = <<>>
    /\ mres' = None
    /\ exc' = "none"
    /\ clock' = 0
    /\ reads' = IF reads < 2 THEN reads + 1 ELSE reads
    /\ UNCHANGED <<interrupted, restarted>>
    /\ IF ~store.exists
       THEN /\ log' = <<>>
            /\ stopped_episodes' = None
            /\ UNCHANGED <<store, players>>
       ELSE LET d == deserialize(store)
                reqs == StartOnHosts(hosts, d.data, new_ep, starts)
            IN /\ store' = d.file
               /\ stopped_episodes' = List(d.data)
               /\ log' = reqs
               /\ UNCHANGED players

\* ------------------------------------------- playback over process runs
\* the episodes the handlers pass: one, the same episode under a new
\* host-assigned id, and a different episode
PlaybackEps == {Ep(1, 1), Ep(2, 1), Ep(2, 2)}

StopPlayback ==
    /\ Ended
    /\ \E ep \in PlaybackEps, store_result \in BOOLEAN :
           stop_playback(ep, "Processing Upgrade. Please Wait...", store_result)
    /\ UNCHANGED <<hosts, library_scanned, cfg, gateVars, handlerVars, auxVars>>

StartPlayback ==
    /\ Ended
    /\ \E ep \in PlaybackEps, starts \in [Hosts -> BOOLEAN] :
           /\ \A h \in Hosts \ {store.data[i].host_name : i \in DOMAIN store.data} : starts[h]
           /\ start_playback(ep, starts)
    /\ UNCHANGED <<hosts, library_scanned, cfg, gateVars, handlerVars, auxVars>>

\* the configured hosts that answer the liveness probe, in configured order
Pools(n) ==
    {SelectSeq([i \in 1..n |-> i], LAMBDA h : h \in alive) :
        alive \in (SUBSET (1..n)) \ {{}}}

\* the process exits and the next event starts a new one: main builds a
\* new LibraryManager over the hosts that are alive
Restart ==
    /\ Ended
    /\ restarted' = TRUE
    /\ hosts' \in Pools(PoolSize)
    /\ library_scanned' = [h \in Hosts |-> FALSE]
    /\ mop' = "idle"
    /\ mph' = "returned"
    /\ idx' = 1
    /\ passes' = 0
    /\ skip' = FALSE
    /\ log' = <<>>
    /\ before' = <<>>
    /\ mres' = None
    /\ exc' = "none"
    /\ clock' = 0
    /\ episode' = None
    /\ stopped_episodes' = None
    /\ UNCHANGED <<players, store, interrupted, reads, cfg, gateVars, handlerVars, auxVars>>

InitPlayback ==
    /\ hosts = [i \in 1..PoolSize |-> i]
    /\ library_scanned = [h \in Hosts |-> FALSE]
    /\ \E playing \in [1..PoolSize -> {<<>>} \cup {<<p>> : p \in PlayerUniverse}] :
           players = [h \in Hosts |-> IF h <= PoolSize THEN playing[h] ELSE <<>>]
    /\ ManagerIdle
    /\ cfg = DefaultCfg
    /\ GateOff
    /\ PlayOff
    /\ HandlerOff
    /\ AuxOff

NextPlayback == StopPlayback \/ StartPlayback \/ Restart

SpecPlayback == InitPlayback /\ [][NextPlayback]_vars

\* ------------------------------------------------------- notifications
\* KodiRPC.notify(self, notification) called on host h with the positional
\* arguments `args` and the keyword arguments named in `kwargs`: a call that
\* does not fit the one parameter is a TypeError; the request is sent unless
\* the host has notifications disabled
notify(h, args, kwargs) ==
    IF Len(args) # 1 \/ kwargs # {} THEN [exc |-> "TypeError", request |-> FALSE]
    ELSE IF disable_notifications[h] THEN [exc |-> "none", request |-> FALSE]
    ELSE [exc |-> "none", request |-> TRUE]

\* the notify calls `cs`, made in a row: the requests the hosts sent, up to
\* the call that raised
RECURSIVE Shown(_)
Shown(cs) ==
    IF cs = <<>> THEN [sent |-> <<>>, made |-> <<>>, exc |-> "none"]
    ELSE LET c == Head(cs)
             r == notify(c.host, <<c.title, c.msg>>, IF c.force THEN {"force"} ELSE {})
             q == Shown(Tail(cs))
             req == IF r.request THEN <<[host |-> c.host, title |-> c.title]>> ELSE <<>>
         IN IF r.exc # "none"
            THEN [sent |-> <<>>, made |-> <<c>>, exc |-> r.exc]
            ELSE [q EXCEPT !.sent = req \o q.sent, !.made = <<c>> \o q.made]

\* LibraryManager.notify(title, msg): host.notify(title, msg) on every host
Notify ==
    /\ Ended
    /\ \E title \in {"Sonarr - Test", "Sonarr - New Episode"} :
        LET cs == [i \in 1..Len(hosts) |->
                      [host |-> hosts[i], method |-> "notify", title |-> title,
                       msg |-> "msg", force |-> FALSE]]
            r == Shown(cs)
        IN /\ mop' = "notify"
           /\ mph' = IF r.exc = "none" THEN "returned" ELSE "raised"
           /\ exc' = r.exc
           /\ log' = r.made
           /\ shown' = r.sent
    /\ idx' = 1
    /\ passes' = 0
    /\ skip' = FALSE
    /\ before' = <<>>
    /\ mres' = None
    /\ clock' = 0
    /\ UNCHANGED <<hosts, library_scanned, players, cfg, gateVars, playVars,
                   handlerVars, modelVars, mainVars, scanVars, restVars, disable_notifications>>

\* LibraryManager.stop_playback, and what the hosts do with its notices
StopAndNotify ==
    /\ Ended
    /\ \E ep \in PlaybackEps, store_result \in BOOLEAN :
           stop_playback(ep, "Processing Upgrade. Please Wait...", store_result)
    /\ shown' = Shown(SelectSeq(log', LAMBDA c : c.method = "notify")).sent
    /\ UNCHANGED <<hosts, library_scanned, cfg, gateVars, handlerVars, modelVars,
                   mainVars, scanVars, restVars, disable_notifications>>

InitNotify ==
    /\ hosts = [i \in 1..PoolSize |-> i]
    /\ library_scanned = [h \in Hosts |-> FALSE]
    /\ \E playing \in [1..PoolSize -> {<<>>} \cup {<<p>> : p \in PlayerUniverse}] :
           players = [h \in Hosts |-> IF h <= PoolSize THEN playing[h] ELSE <<>>]
    /\ ManagerIdle
    /\ cfg = DefaultCfg
    /\ GateOff
    /\ PlayOff
    /\ HandlerOff
    /\ ModelsOff
    /\ MainOff
    /\ ScanOff
    /\ RestOff
    /\ \E off \in SUBSET (1..PoolSize) :
           disable_notifications = [h \in Hosts |-> h \in off]
    /\ shown = <<>>

NextNotify == Notify \/ StopAndNotify

SpecNotify == InitNotify /\ [][NextNotify]_vars

\* C17: a notify call makes no host with notifications disabled send a
\* show-notification request, and after a stop_playback that stopped a player
\* on a host, that host has sent the request for the "Stopped Playback"
\* notice, whether or not it has notifications disabled.
C17_ForcedNoticeReachesHost ==
    /\ mop = "notify" =>
           \A i \in DOMAIN shown : ~disable_notifications[shown[i].host]
    /\ (mop = "stop_playback" /\ mph = "returned") =>
           \A i \in DOMAIN stopped_episodes.v :
               \E j \in DOMAIN shown :
                   /\ shown[j].host = stopped_episodes.v[i].host_name
                   /\ shown[j].title = "Sonarr - Stopped Playback"

\* ------------------------------------------------------- EventHandler
\* the handler returns
Finish ==
    /\ hpc' = "done"
    /\ UNCHANGED <<hexc, calls, hloc, poolVars, gateVars, playVars>>

\* an exception leaves the handler: none of them has a try
Crash(e) ==
    /\ hpc' = "crashed"
    /\ hexc' = e
    /\ UNCHANGED <<calls, hloc, poolVars, gateVars, playVars>>

\* self.kodi.<op>(..., skip_active=sk); the handler goes on at pc
CallMgr(op, sk, pc) ==
    /\ Invoke(op, sk)
    /\ calls' = Append(calls, [op |-> op, skip_active |-> sk])
    /\ hpc' = pc
    /\ UNCHANGED <<hexc, hosts, library_scanned, players, gateVars, playVars>>

\* self.kodi.stop_playback(ep, reason=reason): store_result keeps its default
CallStop(ep, reason, pc) ==
    /\ stop_playback(ep, reason, TRUE)
    /\ calls' = Append(calls, [op |-> "stop_playback", store_result |-> TRUE, ep |-> ep])
    /\ hpc' = pc
    /\ UNCHANGED <<hexc, hosts, library_scanned, gateVars>>

\* self.kodi.update_guis()
CallUpdateGuis(pc) ==
    /\ update_guis
    /\ calls' = Append(calls, [op |-> "update_guis"])
    /\ hpc' = pc
    /\ UNCHANGED <<hexc, hosts, library_scanned, players, gateVars, playVars>>

\* self.kodi.notify(Notification(...)): LibraryManager.notify(title, msg) is
\* called with one argument
CallNotify ==
    /\ hpc' = "crashed"
    /\ hexc' = "TypeError"
    /\ calls' = Append(calls, [op |-> "notify"])
    /\ UNCHANGED <<hloc, poolVars, gateVars, playVars>>

\* self._wait_for_nfos([ep_nfo, show_nfo])
CallGate(lst, pc) ==
    /\ GateStart(lst)
    /\ hpc' = pc
    /\ UNCHANGED <<fs, hexc, calls, hloc, poolVars, playVars>>

\* _wait_for_nfos returned True: its locals are gone, the handler goes on
GateReturn(pc) ==
    /\ nfos' = <<>>
    /\ files_found' = {}
    /\ now' = 0
    /\ elapsed' = 0
    /\ gpc' = "off"
    /\ gexc' = "none"
    /\ reported' = <<>>
    /\ seenEarly' = {}
    /\ completeAt' = -1
    /\ hpc' = pc
    /\ UNCHANGED <<fs, hexc, calls, hloc, poolVars, playVars>>

\* download_new, from "Optionally, Clean Library" on
DnTail(ne) ==
    IF ~Truthy(ne) THEN Finish
    ELSE /\ CallUpdateGuis("dn_gui")
         /\ hloc' = [hloc EXCEPT !.new_episodes = ne]

DnAfterScan(ne) ==
    IF cfg.clean_after_update
    THEN /\ CallMgr("clean_library", FALSE, "dn_clean")
         /\ hloc' = [hloc EXCEPT !.new_episodes = ne]
    ELSE DnTail(ne)

DnAfterGate ==
    /\ CallMgr("show_exists", FALSE, "dn_exists")
    /\ UNCHANGED hloc

download_new ==
    CASE hpc = "start" ->
            IF cfg.wait_for_nfo
            THEN CallGate(<<Path(1), Path(2)>>, "dn_gate")
            ELSE DnAfterGate
      [] hpc = "dn_gate" ->
            /\ GateEnded
            /\ IF gpc = "raised" THEN Crash(gexc)
               ELSE IF gpc = "false" THEN Finish
               ELSE GateReturn("dn_checked")
      [] hpc = "dn_checked" -> DnAfterGate
      [] hpc = "dn_exists" ->
            /\ Ended
            /\ IF mph = "raised" THEN Crash(exc)
               ELSE /\ IF ~Truthy(mres)
                       THEN CallMgr("full_scan", cfg.skip_active, "dn_full")
                       ELSE CallMgr("scan_directory", cfg.skip_active, "dn_dir")
                    /\ UNCHANGED hloc
      [] hpc = "dn_dir" ->
            /\ Ended
            /\ IF mph = "raised" THEN Crash(exc)
               ELSE IF ~Truthy(mres) /\ cfg.full_scan_fallback
               THEN /\ CallMgr("full_scan", cfg.skip_active, "dn_full")
                    /\ UNCHANGED hloc
               ELSE DnAfterScan(mres)
      [] hpc = "dn_full" ->
            /\ Ended
            /\ IF mph = "raised" THEN Crash(exc) ELSE DnAfterScan(mres)
      [] hpc = "dn_clean" ->
            /\ Ended
            /\ IF mph = "raised" THEN Crash(exc) ELSE DnTail(hloc.new_episodes)
      [] hpc = "dn_gui" ->
            /\ Ended
            /\ IF ~cfg.on_download_new THEN Finish ELSE CallNotify
      [] OTHER -> FALSE

\* episode_delete, from "Optionally, Clean Library" on
DelSecondClean(rem) ==
    /\ IF cfg.clean_after_update
       THEN CallMgr("clean_library", cfg.skip_active, "del_clean2")
       ELSE CallUpdateGuis("del_gui")
    /\ hloc' = [hloc EXCEPT !.removed_episodes = rem]

DelAfterRemoval(rem) ==
    IF rem = <<>> /\ ~cfg.clean_after_update
    THEN /\ CallMgr("clean_library", cfg.skip_active, "del_clean1")
         /\ hloc' = [hloc EXCEPT !.removed_episodes = rem]
    ELSE DelSecondClean(rem)

episode_delete ==
    CASE hpc = "start" ->
            /\ IF Lower(henv.episode_file_delete_reason) = "upgrade"
               THEN CallMgr("get_episodes_by_file", FALSE, "up_query")
               ELSE CallMgr("get_episodes_by_file", FALSE, "del_query")
            /\ UNCHANGED hloc
      [] hpc = "up_query" ->
            /\ Ended
            /\ IF mph = "raised" THEN Crash(exc)
               ELSE IF mres.v = <<>> THEN Finish
               ELSE /\ CallStop(mres.v[1], "Processing Upgrade. Please Wait...", "up_stop")
                    /\ hloc' = [hloc EXCEPT !.old_eps = mres.v, !.i = 1]
      [] hpc = "up_stop" ->
            /\ Ended
            /\ IF mph = "raised" THEN Crash(exc)
               ELSE IF hloc.i < Len(hloc.old_eps)
               THEN /\ CallStop(hloc.old_eps[hloc.i + 1],
                                "Processing Upgrade. Please Wait...", "up_stop")
                    /\ hloc' = [hloc EXCEPT !.i = @ + 1]
               ELSE Finish
      [] hpc = "del_query" ->
            /\ Ended
            /\ IF mph = "raised" THEN Crash(exc)
               ELSE IF mres.v = <<>> THEN DelAfterRemoval(<<>>)
               ELSE /\ CallStop(mres.v[1], "Deleted Episode", "del_stop")
                    /\ hloc' = [hloc EXCEPT !.old_eps = mres.v, !.i = 1]
      [] hpc = "del_stop" ->
            /\ Ended
            /\ IF mph = "raised" THEN Crash(exc)
               ELSE /\ CallMgr("remove_episode", FALSE, "del_remove")
                    /\ UNCHANGED hloc
      [] hpc = "del_remove" ->
            /\ Ended
            /\ LET rem == IF Truthy(mres)
                          THEN Append(hloc.removed_episodes, hloc.old_eps[hloc.i])
                          ELSE hloc.removed_episodes
               IN IF mph = "raised" THEN Crash(exc)
                  ELSE IF hloc.i < Len(hloc.old_eps)
                  THEN /\ CallStop(hloc.old_eps[hloc.i + 1], "Deleted Episode", "del_stop")
                       /\ hloc' = [hloc EXCEPT !.i = @ + 1, !.removed_episodes = rem]
                  ELSE DelAfterRemoval(rem)
      [] hpc = "del_clean1" ->
            /\ Ended
            /\ IF mph = "raised" THEN Crash(exc)
               ELSE DelSecondClean(hloc.removed_episodes)
      [] hpc = "del_clean2" ->
            /\ Ended
            /\ IF mph = "raised" THEN Crash(exc)
               ELSE /\ CallUpdateGuis("del_gui")
                    /\ UNCHANGED hloc
      [] hpc = "del_gui" ->
            /\ Ended
            /\ IF ~cfg.on_delete \/ hloc.removed_episodes = <<>>
               THEN Finish ELSE CallNotify
      [] OTHER -> FALSE

\* self.kodi.remove_episode(ep)
CallRemove(ep, pc) ==
    /\ Invoke("remove_episode", FALSE)
    /\ calls' = Append(calls, [op |-> "remove_episode", skip_active |-> FALSE, ep |-> ep])
    /\ hpc' = pc
    /\ UNCHANGED <<hexc, hosts, library_scanned, players, gateVars, playVars>>

\* self.kodi.start_playback(ep); `starts` tells which hosts open a player
CallStart(ep, pc) ==
    /\ \E starts \in [Hosts -> BOOLEAN] : start_playback(ep, starts)
    /\ calls' = Append(calls, [op |-> "start_playback", ep |-> ep])
    /\ hpc' = pc
    /\ UNCHANGED <<hexc, hosts, library_scanned, gateVars>>

\* a handler that removes old records without stopping their playback first
StopsFirstNever(ev) == FALSE

\* rename stops the playback of an old episode before it removes the record;
\* download_upgrade removes it at once
StopsFirst(ev) == ev = "rename"

\* the number of paths in env.deleted_paths (download_upgrade) or in
\* env.episode_file_previous_paths (rename)
OldPaths == henv.npaths

StopReason == "Rename in progress. Please wait..."

\* download_upgrade / rename: notifications.on_download_upgrade / on_rename
UpNotifies == IF hev = "rename" THEN cfg.on_rename ELSE cfg.on_download_upgrade

\* download_upgrade / rename, from the notification test on
UpNotify ==
    IF ~UpNotifies \/ ~Truthy(hloc.new_episodes) THEN Finish ELSE CallNotify

\* download_upgrade / rename, `for ep in new_episodes: start_playback(ep)`
UpRestart(k) ==
    IF k <= Len(hloc.new_episodes.v)
    THEN /\ CallStart(hloc.new_episodes.v[k], "u_start")
         /\ hloc' = [hloc EXCEPT !.i = k]
    ELSE UpNotify

\* self.kodi.copy_ep_metadata(removed_episodes, new_episodes): the two lists
\* are passed where LibraryManager.copy_ep_metadata(old_ep, new_ep) reads
\* new_ep.episode_id for the first host, an AttributeError; with no host the
\* loop is empty and update_guis follows
UpCopy(ne) ==
    IF Len(hosts) > 0
    THEN /\ hpc' = "crashed"
         /\ hexc' = "AttributeError"
         /\ calls' = Append(calls, [op |-> "copy_ep_metadata"])
         /\ hloc' = [hloc EXCEPT !.new_episodes = ne]
         /\ UNCHANGED <<poolVars, gateVars, playVars>>
    ELSE /\ CallUpdateGuis("u_gui")
         /\ hloc' = [hloc EXCEPT !.new_episodes = ne]

\* download_upgrade / rename, from "Optionally, Clean Library" on
UpAfterScan(ne) ==
    IF cfg.clean_after_update
    THEN /\ CallMgr("clean_library", FALSE, "u_clean2")
         /\ hloc' = [hloc EXCEPT !.new_episodes = ne]
    ELSE UpCopy(ne)

\* download_upgrade / rename, the forced clean and the scan of the show
UpAfterRemoval(rem) ==
    /\ IF rem = <<>> /\ ~cfg.clean_after_update
       THEN CallMgr("clean_library", cfg.skip_active, "u_clean1")
       ELSE CallMgr("scan_directory", cfg.skip_active, "u_dir")
    /\ hloc' = [hloc EXCEPT !.removed_episodes = rem]

\* download_upgrade / rename, the loop over the old paths from path p on
UpPath(p, rem) ==
    IF p <= OldPaths
    THEN /\ CallMgr("get_episodes_by_file", FALSE, "u_query")
         /\ hloc' = [hloc EXCEPT !.p = p, !.removed_episodes = rem]
    ELSE UpAfterRemoval(rem)

\* download_upgrade / rename, the loop over old_eps at episode k
UpEpisode(eps, k, rem) ==
    /\ IF StopsFirst(hev)
       THEN CallStop(eps[k], StopReason, "u_stop")
       ELSE CallRemove(eps[k], "u_remove")
    /\ hloc' = [hloc EXCEPT !.old_eps = eps, !.i = k, !.removed_episodes = rem]

\* download_upgrade and rename follow one pattern: the gate, the removal of
\* the old records, the forced clean, the rescan, the optional clean, the
\* copy of the watched states, the GUI refresh, the restart of playback and
\* the notifications
UpGatedNever == FALSE

\* `if self.cfg.library.wait_for_nfo:` ahead of everything else
UpGated == cfg.wait_for_nfo

UpStep ==
    CASE hpc = "start" ->
            IF UpGated
            THEN CallGate(<<Path(1), Path(2)>>, "u_gate")
            ELSE UpPath(1, <<>>)
      [] hpc = "u_gate" ->
            /\ GateEnded
            /\ IF gpc = "raised" THEN Crash(gexc)
               ELSE IF gpc = "false" THEN Finish
               ELSE GateReturn("u_checked")
      [] hpc = "u_checked" -> UpPath(1, <<>>)
      [] hpc = "u_query" ->
            /\ Ended
            /\ IF mph = "raised" THEN Crash(exc)
               ELSE IF mres.v = <<>> THEN UpPath(hloc.p + 1, hloc.removed_episodes)
               ELSE UpEpisode(mres.v, 1, hloc.removed_episodes)
      [] hpc = "u_stop" ->
            /\ Ended
            /\ IF mph = "raised" THEN Crash(exc)
               ELSE /\ CallRemove(hloc.old_eps[hloc.i], "u_remove")
                    /\ UNCHANGED hloc
      [] hpc = "u_remove" ->
            /\ Ended
            /\ LET rem == IF Truthy(mres)
                          THEN Append(hloc.removed_episodes, hloc.old_eps[hloc.i])
                          ELSE hloc.removed_episodes
               IN IF mph = "raised" THEN Crash(exc)
                  ELSE IF hloc.i < Len(hloc.old_eps)
                  THEN UpEpisode(hloc.old_eps, hloc.i + 1, rem)
                  ELSE UpPath(hloc.p + 1, rem)
      [] hpc = "u_clean1" ->
            /\ Ended
            /\ IF mph = "raised" THEN Crash(exc)
               ELSE /\ CallMgr("scan_directory", cfg.skip_active, "u_dir")
                    /\ UNCHANGED hloc
      [] hpc = "u_dir" ->
            /\ Ended
            /\ IF mph = "raised" THEN Crash(exc)
               ELSE IF ~Truthy(mres) /\ cfg.full_scan_fallback
               THEN /\ CallMgr("full_scan", cfg.skip_active, "u_full")
                    /\ UNCHANGED hloc
               ELSE UpAfterScan(mres)
      [] hpc = "u_full" ->
            /\ Ended
            /\ IF mph = "raised" THEN Crash(exc) ELSE UpAfterScan(mres)
      [] hpc = "u_clean2" ->
            /\ Ended
            /\ IF mph = "raised" THEN Crash(exc) ELSE UpCopy(hloc.new_episodes)
      [] hpc = "u_gui" ->
            /\ Ended
            /\ UpRestart(1)
      [] hpc = "u_start" ->
            /\ Ended
            /\ IF mph = "raised" THEN Crash(exc) ELSE UpRestart(hloc.i + 1)
      [] OTHER -> FALSE

download_upgrade == UpStep

rename == UpStep

\* ------------------------------- series_delete and the notification-only
\* handlers
\* SonarrEnvironment._parse_bool on the value of Sonarr_Series_DeletedFiles;
\* a variable that is unset or empty leaves the field at its default None
parse_bool(value) ==
    CASE value = "" -> None
      [] value \in {"True", "true", " TRUE "} -> Bool(TRUE)
      [] value \in {"False", "false", " FALSE "} -> Bool(FALSE)

FilesDeletedAlways(e) == TRUE

\* `if self.env.series_deleted_files:`
FilesDeleted(e) == Truthy(e.series_deleted_files)

series_delete ==
    CASE hpc = "start" ->
            IF FilesDeleted(henv)
            THEN /\ CallMgr("remove_show", FALSE, "sd_remove")
                 /\ UNCHANGED hloc
            ELSE Finish
      [] hpc = "sd_remove" ->
            /\ Ended
            /\ IF mph = "raised" THEN Crash(exc)
               ELSE IF cfg.clean_after_update
               THEN /\ CallMgr("clean_library", FALSE, "sd_clean")
                    /\ UNCHANGED hloc
               ELSE /\ CallUpdateGuis("sd_gui")
                    /\ UNCHANGED hloc
      [] hpc = "sd_clean" ->
            /\ Ended
            /\ IF mph = "raised" THEN Crash(exc)
               ELSE /\ CallUpdateGuis("sd_gui")
                    /\ UNCHANGED hloc
      [] hpc = "sd_gui" ->
            /\ Ended
            /\ IF ~cfg.on_series_delete THEN Finish ELSE CallNotify
      [] OTHER -> FALSE

NotifyOnlyEvents ==
    {"series_add", "health_issue", "health_restored", "application_update",
     "manual_interaction_required", "test"}

\* the enable flag a notification-only handler reads
OwnFlag(ev) ==
    CASE ev = "series_add" -> cfg.on_series_add
      [] ev = "health_issue" -> cfg.on_health_issue
      [] ev = "health_restored" -> cfg.on_health_restored
      [] ev = "application_update" -> cfg.on_application_update
      [] ev = "manual_interaction_required" -> cfg.on_manual_interaction_required
      [] ev = "test" -> cfg.on_test

\* `if not self.cfg.notifications.on_<event>: return`, then
\* self.kodi.notify(Notification(title=title, msg=msg))
NotifyOnly(ev) ==
    /\ hpc = "start"
    /\ IF ~OwnFlag(ev) THEN Finish ELSE CallNotify

series_add == NotifyOnly("series_add")

health_issue == NotifyOnly("health_issue")

health_restored == NotifyOnly("health_restored")

application_update == NotifyOnly("application_update")

manual_interaction_required == NotifyOnly("manual_interaction_required")

test == NotifyOnly("test")

\* the handler main dispatches to, running up to its next call
HandlerStep ==
    /\ hpc \notin {"done", "crashed"}
    /\ CASE hev = "download_new" -> download_new
         [] hev = "episode_delete" -> episode_delete
         [] hev = "download_upgrade" -> download_upgrade
         [] hev = "rename" -> rename
         [] hev = "series_delete" -> series_delete
         [] hev = "series_add" -> series_add
         [] hev = "health_issue" -> health_issue
         [] hev = "health_restored" -> health_restored
         [] hev = "application_update" -> application_update
         [] hev = "manual_interaction_required" -> manual_interaction_required
         [] hev = "test" -> test
         [] OTHER -> FALSE
    /\ UNCHANGED <<cfg, hev, henv, auxVars>>

\* the values Sonarr passes as sonarr_episodefile_deletereason
Reasons == {"Upgrade", "upgrade", "UPGRADE", "Manual", "MissingFromDisk"}

\* the settings an event's handler reads; the others keep their defaults
HandlerCfgs(ev) ==
    IF ev = "download_new"
    THEN {[DefaultCfg EXCEPT !.wait_for_nfo = w, !.nfo_timeout_minuets = t,
                             !.full_scan_fallback = f, !.clean_after_update = c,
                             !.skip_active = k, !.on_download_new = n] :
            w \in BOOLEAN, t \in 0..MaxTimeoutMin, f \in BOOLEAN, c \in BOOLEAN,
            k \in BOOLEAN, n \in BOOLEAN}
    ELSE {[DefaultCfg EXCEPT !.clean_after_update = c, !.skip_active = k, !.on_delete = n] :
            c \in BOOLEAN, k \in BOOLEAN, n \in BOOLEAN}

InitHandler ==
    /\ hosts = [i \in 1..PoolSize |-> i]
    /\ library_scanned = [h \in Hosts |-> FALSE]
    /\ \E playing \in [1..PoolSize -> {<<>>, <<Player(Item("episode", 1), TRUE, 60)>>}] :
           players = [h \in Hosts |-> IF h <= PoolSize THEN playing[h] ELSE <<>>]
    /\ ManagerIdle
    /\ PlayOff
    /\ hev \in {"download_new", "episode_delete"}
    /\ cfg \in HandlerCfgs(hev)
    /\ henv \in [episode_file_delete_reason :
                    IF hev = "episode_delete" THEN Reasons ELSE {""}]
    /\ nfos = <<>>
    /\ files_found = {}
    /\ fs \in IF hev = "download_new" /\ cfg.wait_for_nfo
              THEN SUBSET {Path(1), Path(2)} ELSE {{}}
    /\ now = 0
    /\ elapsed = 0
    /\ gpc = "off"
    /\ gexc = "none"
    /\ reported = <<>>
    /\ seenEarly = {}
    /\ completeAt = -1
    /\ hpc = "start"
    /\ hexc = "none"
    /\ calls = <<>>
    /\ hloc = NoLocals
    /\ AuxOff

NextHandler ==
    HandlerStep \/ QueryVisit \/ ActVisit \/ RetrySleep \/ GatePoll \/ GateSleep

SpecHandler == InitHandler /\ [][NextHandler]_vars

\* --------------------------------------- download_upgrade and rename runs
UpgradeCfgs ==
    {[DefaultCfg EXCEPT !.wait_for_nfo = w, !.nfo_timeout_minuets = t,
                        !.full_scan_fallback = f, !.clean_after_update = c,
                        !.skip_active = k, !.on_download_upgrade = n, !.on_rename = n] :
        w \in BOOLEAN, t \in {0}, f \in BOOLEAN, c \in BOOLEAN,
        k \in BOOLEAN, n \in BOOLEAN}

InitUpgrade ==
    /\ hosts = [i \in 1..PoolSize |-> i]
    /\ library_scanned = [h \in Hosts |-> FALSE]
    /\ \E playing \in [1..PoolSize -> {<<>>, <<Player(Item("episode", 1), TRUE, 60)>>}] :
           players = [h \in Hosts |-> IF h <= PoolSize THEN playing[h] ELSE <<>>]
    /\ ManagerIdle
    /\ PlayOff
    /\ hev \in {"download_upgrade", "rename", "episode_delete"}
    /\ cfg \in UpgradeCfgs
    /\ henv \in [episode_file_delete_reason : {""}, npaths : 0..1]
    /\ nfos = <<>>
    /\ files_found = {}
    /\ fs \in IF cfg.wait_for_nfo THEN SUBSET {Path(1), Path(2)} ELSE {{}}
    /\ now = 0
    /\ elapsed = 0
    /\ gpc = "off"
    /\ gexc = "none"
    /\ reported = <<>>
    /\ seenEarly = {}
    /\ completeAt = -1
    /\ hpc = "start"
    /\ hexc = "none"
    /\ calls = <<>>
    /\ hloc = NoLocals
    /\ AuxOff

SpecUpgrade == InitUpgrade /\ [][NextHandler]_vars

\* ------------------------- series_delete and notification-only runs
DeletedFilesValues == {"", "True", "False", " FALSE "}

EventCfgs ==
    {[DefaultCfg EXCEPT !.clean_after_update = c, !.skip_active = k,
                        !.on_series_add = f[1],
                        !.on_series_delete = f[2], !.on_health_issue = f[3],
                        !.on_health_restored = f[4], !.on_application_update = f[5],
                        !.on_manual_interaction_required = f[6], !.on_test = f[7]] :
        c \in BOOLEAN, k \in BOOLEAN, f \in [1..7 -> BOOLEAN]}

InitEvents ==
    /\ hosts = [i \in 1..PoolSize |-> i]
    /\ library_scanned = [h \in Hosts |-> FALSE]
    /\ \E playing \in [1..PoolSize -> {<<>>, <<Player(Item("episode", 1), TRUE, 60)>>}] :
           players = [h \in Hosts |-> IF h <= PoolSize THEN playing[h] ELSE <<>>]
    /\ ManagerIdle
    /\ GateOff
    /\ PlayOff
    /\ hev \in NotifyOnlyEvents \cup {"series_delete"}
    /\ cfg \in EventCfgs
    /\ \E v \in DeletedFilesValues : henv = [series_deleted_files |-> parse_bool(v)]
    /\ hpc = "start"
    /\ hexc = "none"
    /\ calls = <<>>
    /\ hloc = NoLocals
    /\ AuxOff

NextEvents == HandlerStep \/ RemoveShowQuery \/ RemoveShowVisit \/ ActVisit \/ RetrySleep

SpecEvents == InitEvents /\ [][NextEvents]_vars

\* --------------------------------- scans on the hosts, one after another
max_time_sec == 1800

WaitTick == 600

ScanClasses == {"KodiClient", "KodiRPC"}

\* is_scanning: the answer to XBMC.GetInfoBooleans is the flag or not valid.
\* KodiClient (kodi.py) returns False for an answer that is not valid,
\* KodiRPC (rpc_client.py) raises APIError
is_scanning(class, answer) ==
    IF answer = "invalid"
    THEN IF class = "KodiClient" THEN Returned(Bool(FALSE)) ELSE Raised("APIError")
    ELSE Returned(Bool(answer = "set"))

\* _wait_for_video_scan, one turn of `while True` with `elapsed` at el: how
\* the wait ends, or "again"
wait_for_video_scan(class, answer, el) ==
    LET r == is_scanning(class, answer) IN
    IF r.exc # "none" THEN r.exc
    ELSE IF ~Truthy(r.ret) THEN "completed"
    ELSE IF el >= max_time_sec THEN "ScanTimeout"
    ELSE "again"

\* what the loop over the hosts does once scan_series_dir on hosts[si] has
\* ended with o. download_new of event_handler.py (over KodiClient):
\* `except (APIError, ScanTimeout): continue`, else `break`.
\* LibraryManager.scan_directory (over KodiRPC): no try, and
\* `if host.scan_series_dir(show_dir):` is given None
AfterHost(o) ==
    IF sclass = "KodiClient"
    THEN IF o = "completed" \/ si = Len(hosts)
         THEN /\ spc' = "done"
              /\ UNCHANGED si
         ELSE /\ spc' = "request"
              /\ si' = si + 1
    ELSE IF o # "completed"
         THEN /\ spc' = "raised"
              /\ UNCHANGED si
         ELSE IF si = Len(hosts)
         THEN /\ spc' = "sleep"
              /\ UNCHANGED si
         ELSE /\ spc' = "request"
              /\ si' = si + 1

ScanFrame == UNCHANGED <<hosts, players, mgrVars, cfg, gateVars, playVars, handlerVars,
                         modelVars, mainVars, notifyVars, restVars, sclass, spass>>

\* scan_series_dir on hosts[si], the VideoLibrary.Scan request: the answer is
\* "OK" and the host scans, or it is not valid
ScanRequest ==
    /\ spc = "request"
    /\ LET h == hosts[si] IN
       \E valid \in BOOLEAN :
        /\ busy' = [busy EXCEPT ![h] = @ \/ valid]
        /\ selapsed' = [selapsed EXCEPT ![h] = 0]
        /\ sseen' = [sseen EXCEPT ![h] = "none"]
        /\ IF valid
           THEN /\ spc' = "wait"
                /\ sout' = [sout EXCEPT ![h] = "none"]
                /\ UNCHANGED si
           ELSE /\ sout' = [sout EXCEPT ![h] = "APIError"]
                /\ AfterHost("APIError")
    /\ UNCHANGED library_scanned
    /\ ScanFrame

\* one turn of _wait_for_video_scan on hosts[si]
WaitPoll ==
    /\ spc = "wait"
    /\ LET h == hosts[si] IN
       \E answer \in {IF busy[h] THEN "set" ELSE "clear", "invalid"} :
        LET o == wait_for_video_scan(sclass, answer, selapsed[h]) IN
        /\ sseen' = [sseen EXCEPT ![h] = answer]
        /\ IF o = "again"
           THEN /\ selapsed' = [selapsed EXCEPT ![h] = @ + WaitTick]
                /\ UNCHANGED <<si, spc, sout, library_scanned>>
           ELSE /\ sout' = [sout EXCEPT ![h] = o]
                /\ library_scanned' = [library_scanned EXCEPT ![h] = @ \/ o = "completed"]
                /\ AfterHost(o)
                /\ UNCHANGED selapsed
    /\ UNCHANGED busy
    /\ ScanFrame

\* a host finishes its scan
HostFinishes ==
    /\ \E h \in Range(hosts) :
        /\ busy[h]
        /\ busy' = [busy EXCEPT ![h] = FALSE]
    /\ UNCHANGED <<library_scanned, si, spc, selapsed, sseen, sout>>
    /\ ScanFrame

\* LibraryManager.scan_directory: `if not scanned: sleep(5)`, all hosts again
ScanRetry ==
    /\ spc = "sleep"
    /\ spass < MaxPasses
    /\ spass' = spass + 1
    /\ si' = 1
    /\ spc' = "request"
    /\ selapsed' = [h \in Hosts |-> 0]
    /\ sseen' = [h \in Hosts |-> "none"]
    /\ sout' = [h \in Hosts |-> "none"]
    /\ UNCHANGED <<hosts, library_scanned, players, mgrVars, cfg, gateVars, playVars,
                   handlerVars, modelVars, mainVars, notifyVars, restVars, sclass, busy>>

InitScan ==
    /\ hosts = [i \in 1..PoolSize |-> i]
    /\ library_scanned = [h \in Hosts |-> FALSE]
    /\ players = [h \in Hosts |-> <<>>]
    /\ ManagerIdle
    /\ cfg = DefaultCfg
    /\ GateOff
    /\ PlayOff
    /\ HandlerOff
    /\ ModelsOff
    /\ MainOff
    /\ NotifyOff
    /\ RestOff
    /\ sclass \in ScanClasses
    /\ busy = [h \in Hosts |-> FALSE]
    /\ si = 1
    /\ spc = "request"
    /\ spass = 0
    /\ selapsed = [h \in Hosts |-> 0]
    /\ sseen = [h \in Hosts |-> "none"]
    /\ sout = [h \in Hosts |-> "none"]

NextScan == ScanRequest \/ WaitPoll \/ HostFinishes \/ ScanRetry

SpecScan == InitScan /\ [][NextScan]_vars

\* C29: at no time is a scan this process started in progress on two hosts.
C29_OneScanAtATime == Cardinality({h \in Range(hosts) : busy[h]}) <= 1

\* C30: a wait that ended in completion saw the flag clear at its last query;
\* one that ended in ScanTimeout saw it set with the budget used up; a query
\* that failed ends the wait in APIError; and a host with library_scanned set
\* in this pass ended its scan in completion.
C30_ThreeOutcomes ==
    \A h \in Range(hosts) :
        /\ sout[h] = "completed" => sseen[h] = "clear"
        /\ sout[h] = "ScanTimeout" => sseen[h] = "set" /\ selapsed[h] >= max_time_sec
        /\ sseen[h] = "invalid" => sout[h] = "APIError"
        /\ (library_scanned[h] /\ spass = 0) => sout[h] = "completed"

\* ------------------------------------------------------- path mapping
\* strings are sequences of characters; paths are built from the segments
\* "a" and "b"
MaxSegs == 3

MaxRules == 2

RECURSIVE PathsOfLen(_)
PathsOfLen(n) ==
    IF n = 0 THEN {<<>>}
    ELSE {<<"/", c>> \o p : c \in {"a", "b"}, p \in PathsOfLen(n - 1)}

PathsUpTo(n) == UNION {PathsOfLen(k) : k \in 1..n}

\* PathMapping(sonarr, kodi)
PathMapping(sonarr, kodi) == [sonarr |-> sonarr, kodi |-> kodi]

PathMaps == {PathMapping(a, b) : a \in PathsUpTo(2), b \in PathsOfLen(1)}

RuleLists == UNION {[1..n -> PathMaps] : n \in 0..MaxRules}

\* str.startswith
StartsWith(str, sub) == Len(sub) <= Len(str) /\ SubSeq(str, 1, Len(sub)) = sub

\* `sub in str`
Contains(sub, str) ==
    \E i \in 1..(Len(str) - Len(sub) + 1) : SubSeq(str, i, i + Len(sub) - 1) = sub

\* str.replace(old, new): every occurrence, left to right, without overlap
RECURSIVE Replace(_, _, _)
Replace(str, old, new) ==
    IF str = <<>> THEN <<>>
    ELSE IF StartsWith(str, old)
    THEN new \o Replace(SubSeq(str, Len(old) + 1, Len(str)), old, new)
    ELSE <<Head(str)>> \o Replace(Tail(str), old, new)

\* repeated slashes made one
RECURSIVE Squeeze(_)
Squeeze(str) ==
    IF Len(str) < 2 THEN str
    ELSE IF str[1] = "/" /\ str[2] = "/" THEN Squeeze(Tail(str))
    ELSE <<Head(str)>> \o Squeeze(Tail(str))

\* str(PurePosixPath(str)): repeated slashes collapse, a trailing slash goes,
\* exactly two leading slashes stay (no "." or ".." among the characters)
PurePosixPath(str) ==
    LET q == Squeeze(str)
        t == IF Len(q) > 1 /\ q[Len(q)] = "/" THEN SubSeq(q, 1, Len(q) - 1) ELSE q
    IN IF StartsWith(str, <<"/", "/">>) /\ (Len(str) = 2 \/ str[3] # "/")
       THEN <<"/">> \o t
       ELSE t

\* KodiRPC._map_path, the loop: every rule is tried on `path`, the last one
\* that matches sets out_str
RECURSIVE MapLoop(_, _, _)
MapLoop(path, path_maps, out_str) ==
    IF path_maps = <<>> THEN out_str
    ELSE LET path_map == Head(path_maps) IN
         MapLoop(path, Tail(path_maps),
                 IF Contains(path_map.sonarr, path)
                 THEN Replace(path, path_map.sonarr, path_map.kodi)
                 ELSE out_str)

\* KodiRPC._map_path on a posix host
map_path(path, path_maps) == PurePosixPath(MapLoop(path, path_maps, path))

\* EventHandler._map_path_to_kodi(sonarr_path, to_posix = True)
RECURSIVE map_path_to_kodi(_, _)
map_path_to_kodi(sonarr_path, path_maps) ==
    IF path_maps = <<>> THEN sonarr_path
    ELSE LET path_map == Head(path_maps) IN
         IF Contains(path_map.sonarr, sonarr_path)
         THEN PurePosixPath(Replace(sonarr_path, path_map.sonarr, path_map.kodi))
         ELSE map_path_to_kodi(sonarr_path, Tail(path_maps))

MapArgs ==
    {[t |-> "map", fn |-> f, path |-> p, path_maps |-> r] :
        f \in {"_map_path", "_map_path_to_kodi"}, p \in PathsUpTo(MaxSegs), r \in RuleLists}

\* a path is mapped for a host
MapPath ==
    /\ arg.t = "map"
    /\ res = None
    /\ res' = [t |-> "str",
               v |-> IF arg.fn = "_map_path"
                     THEN map_path(arg.path, arg.path_maps)
                     ELSE map_path_to_kodi(arg.path, arg.path_maps)]
    /\ UNCHANGED <<arg, reqVars, poolVars, cfg, gateVars, playVars, handlerVars,
                   modelVars, mainVars, notifyVars, scanVars>>

InitPaths ==
    /\ hosts = [i \in 1..PoolSize |-> i]
    /\ library_scanned = [h \in Hosts |-> FALSE]
    /\ players = [h \in Hosts |-> <<>>]
    /\ ManagerIdle
    /\ cfg = DefaultCfg
    /\ GateOff
    /\ PlayOff
    /\ HandlerOff
    /\ ModelsOff
    /\ MainOff
    /\ NotifyOff
    /\ ScanOff
    /\ arg \in MapArgs
    /\ res = None
    /\ REQ_ID = 0
    /\ sent = <<>>

SpecPaths == InitPaths /\ [][MapPath]_vars

\* the mapping the rules stand for: the first rule whose source is a prefix
\* of the path replaces that prefix
RECURSIVE FirstPrefixRule(_, _)
FirstPrefixRule(path, path_maps) ==
    IF path_maps = <<>> THEN path
    ELSE IF StartsWith(path, Head(path_maps).sonarr)
    THEN Head(path_maps).kodi \o SubSeq(path, Len(Head(path_maps).sonarr) + 1, Len(path))
    ELSE FirstPrefixRule(path, Tail(path_maps))

\* C32: the mapped path is the path with the source prefix of the first rule
\* whose source is a prefix of it replaced by that rule's host prefix, and
\* the path itself when no rule's source is a prefix of it.
C32_FirstPrefixRule ==
    (arg.t = "map" /\ res # None) => res.v = FirstPrefixRule(arg.path, arg.path_maps)

\* ---------------------------------------------------------- request ids
MaxReqs == 4

\* how requests.post / raise_for_status / resp.json() may end in _req
ReqOutcomes == {"ok", "Timeout", "HTTPError", "ConnectionError"}

\* _req on host h: the request carries "id": self.REQ_ID; the class attribute
\* is incremented only past the except branches
Req ==
    /\ Len(sent) < MaxReqs
    /\ \E h \in Range(hosts), o \in ReqOutcomes :
        /\ sent' = Append(sent, [host |-> h, id |-> REQ_ID, out |-> o])
        /\ REQ_ID' = IF o = "ok" THEN REQ_ID + 1 ELSE REQ_ID
    /\ UNCHANGED <<helperVars, poolVars, cfg, gateVars, playVars, handlerVars,
                   modelVars, mainVars, notifyVars, scanVars>>

InitReq ==
    /\ hosts = [i \in 1..PoolSize |-> i]
    /\ library_scanned = [h \in Hosts |-> FALSE]
    /\ players = [h \in Hosts |-> <<>>]
    /\ ManagerIdle
    /\ cfg = DefaultCfg
    /\ GateOff
    /\ PlayOff
    /\ HandlerOff
    /\ AuxOff

SpecReq == InitReq /\ [][Req]_vars

\* C33: of any two requests posted, the later one carries the greater id.
C33_IdsIncrease ==
    \A i, j \in DOMAIN sent : i < j => sent[i].id < sent[j].id

\* ------------------------------------------------- the gate on its own
InitNfo ==
    /\ hosts = [i \in 1..NumHosts |-> i]
    /\ library_scanned = [h \in Hosts |-> FALSE]
    /\ players = [h \in Hosts |-> <<>>]
    /\ ManagerIdle
    /\ \E t \in 0..MaxTimeoutMin :
           cfg = [DefaultCfg EXCEPT !.wait_for_nfo = TRUE, !.nfo_timeout_minuets = t]
    /\ nfos \in NfoLists
    /\ files_found = {}
    /\ fs \in SUBSET Range(nfos)
    /\ now = 0
    /\ elapsed = 0
    /\ gpc = "poll"
    /\ gexc = "none"
    /\ reported = <<>>
    /\ seenEarly = {}
    /\ completeAt = -1
    /\ PlayOff
    /\ HandlerOff
    /\ AuxOff

NextNfo == GatePoll \/ GateSleep

SpecNfo == InitNfo /\ [][NextNfo]_vars

\* ------------------------------------------------- claims on playback
SameIdentity(a, b) ==
    /\ a.show_id = b.show_id
    /\ a.season = b.season
    /\ a.episode = b.episode

PauseFollows(i) ==
    /\ i < Len(log)
    /\ log[i + 1].method = "pause_player"
    /\ log[i + 1].host = log[i].host

PlaysEpisode(p, ep) ==
    /\ p.item # None
    /\ Lower(p.item.type) = "episode"
    /\ p.item.item_id = ep.episode_id

\* C35: stop_playback raises nothing; on every host of the pool it stops
\* exactly the players whose current item is an episode with the given
\* episode's id (a player with another item or with no readable item is
\* left as it was); when no player was stopped the store is left alone
\* and no request is sent.
C35_StopsExactlyMatching ==
    [][mop' = "stop_playback" =>
           /\ exc' = "none"
           /\ \A h \in Range(hosts) :
                  players'[h] = SelectSeq(players[h], LAMBDA p : ~PlaysEpisode(p, episode'))
           /\ (players' = players) => (store' = store /\ log' = <<>>)]_vars

\* C35 without the unreadable item: the rest of the statement
C35_ReadableItems ==
    [][(mop' = "stop_playback" /\ exc' = "none") =>
           /\ \A h \in Range(hosts) :
                  players'[h] = SelectSeq(players[h], LAMBDA p : ~PlaysEpisode(p, episode'))
           /\ (players' = players) => (store' = store /\ log' = <<>>)]_vars

C37_OtherRecordsKept ==
    [][(mop' = "start_playback" /\ store.exists) =>
           \A i \in DOMAIN store.data :
               \/ EpEq(store.data[i].episode, episode')
               \/ /\ store'.exists
                  /\ \E j \in DOMAIN store'.data : store'.data[j] = store.data[i]]_vars

\* ------------------------------------------------- claims on the gate
\* C7: when every path was seen to exist at a poll taken before the budget
\* (nfo_timeout_minuets * 60 * number of paths seconds) ended, the gate
\* returns True; it never polls again once all paths are found, and it
\* returns within one sleep of the poll that found the last path.
C7_GateSucceedsPromptly ==
    /\ (GateEnded /\ seenEarly = Range(nfos)) => gpc = "true"
    /\ gpc = "poll" => files_found # Range(nfos)
    /\ gpc = "true" => now <= completeAt + PollDelay + MaxSlip

C7_Witness ==
    /\ gpc = "true"
    /\ Len(nfos) >= 2
    /\ completeAt > 0
    /\ seenEarly = Range(nfos)
    /\ now < MaxSec(cfg, nfos)

\* C8: when the gate ends with some path never found, it has returned False
\* (no exception), the budget has elapsed, and the paths it reported missing
\* are exactly the paths it never found.
C8_TimeoutReturnsFalse ==
    (GateEnded /\ files_found # Range(nfos)) =>
        /\ gpc = "false"
        /\ gexc = "none"
        /\ elapsed >= MaxSec(cfg, nfos)
        /\ Range(reported) = Range(nfos) \ files_found

\* ------------------------------------------------- the records (models.py)
\* the records compared: eb differs from ea in any of its fields
LeftEps ==
    {EpisodeDetails(1, show, "old.mkv", season, n, ws) :
        show \in 1..MaxField, season \in 1..MaxField, n \in 1..MaxField,
        ws \in WatchedStates}

RightEps ==
    {EpisodeDetails(id, show, file, season, n, WatchedState(PyInt(1), Datetime)) :
        id \in 1..2, show \in 1..MaxField, file \in {"old.mkv", "new.mkv"},
        season \in 1..MaxField, n \in 1..MaxField}

\* ea == eb, hash(ea) == hash(eb), ea in [eb]
Compare ==
    /\ cmp = None
    /\ cmp' = [eq |-> EpEq(ea, eb), hash |-> EpHash(ea) = EpHash(eb),
               member |-> EpIn(ea, <<eb>>)]
    /\ UNCHANGED <<ea, eb, watched, poolVars, cfg, gateVars, playVars, handlerVars,
                   mainVars, notifyVars, scanVars, restVars>>

\* ea.watched_state.is_watched
ReadWatched ==
    /\ watched = None
    /\ watched' = Bool(is_watched(ea.watched_state))
    /\ UNCHANGED <<ea, eb, cmp, poolVars, cfg, gateVars, playVars, handlerVars,
                   mainVars, notifyVars, scanVars, restVars>>

InitModels ==
    /\ hosts = [i \in 1..NumHosts |-> i]
    /\ library_scanned = [h \in Hosts |-> FALSE]
    /\ players = [h \in Hosts |-> <<>>]
    /\ ManagerIdle
    /\ cfg = DefaultCfg
    /\ GateOff
    /\ PlayOff
    /\ HandlerOff
    /\ ea \in LeftEps
    /\ eb \in RightEps
    /\ cmp = None
    /\ watched = None
    /\ MainOff
    /\ NotifyOff
    /\ ScanOff
    /\ RestOff

NextModels == Compare \/ ReadWatched

SpecModels == InitModels /\ [][NextModels]_vars

\* ------------------------------------------------ claims on the records
\* C11: two EpisodeDetails records compare equal, hash alike and are found
\* in a list holding the other exactly when their (show_id, season, episode)
\* agree, whatever their episode_id, file and watched_state.
C11_EqualityIsIdentity ==
    cmp # None =>
        /\ cmp.eq <=> SameIdentity(ea, eb)
        /\ cmp.eq => cmp.hash
        /\ cmp.member <=> SameIdentity(ea, eb)

C11_Witness ==
    /\ cmp # None
    /\ cmp.eq
    /\ cmp.member
    /\ ea.episode_id # eb.episode_id
    /\ ea.file # eb.file
    /\ ea.watched_state # eb.watched_state

\* C12: is_watched is true exactly when play_count is a number above 0 and
\* last_played is present.
C12_WatchedNeedsBoth ==
    watched # None =>
        (watched.v <=> /\ ea.watched_state.play_count \in {PyInt(1), PyInt(2)}
                       /\ ea.watched_state.last_played = Datetime)

C12_Witness ==
    /\ watched = Bool(FALSE)
    /\ ea.watched_state.play_count = PyInt(2)
    /\ ea.watched_state.last_played = None

\* ------------------------------------------------- main (sonarr_kodi.py)
Str(s) == [t |-> "str", v |-> s]

\* the values of the Events enumeration; a member is named by its value
EventValues ==
    {"Grab", "Download", "Rename", "EpisodeFileDelete", "SeriesAdd", "SeriesDelete",
     "HealthIssue", "HealthRestored", "ApplicationUpdate",
     "ManualInteractionRequired", "Test", "Unknown"}

UNKNOWN == "Unknown"

\* an upper() that first strips the blanks around the word
UpperStripped(s) ==
    CASE s \in {"Grab"} -> "GRAB"
      [] s \in {"Download", "download", "DOWNLOAD", " Download"} -> "DOWNLOAD"
      [] s \in {"Rename"} -> "RENAME"
      [] s \in {"EpisodeFileDelete", "episodefiledelete"} -> "EPISODEFILEDELETE"
      [] s \in {"SeriesAdd"} -> "SERIESADD"
      [] s \in {"SeriesDelete"} -> "SERIESDELETE"
      [] s \in {"HealthIssue"} -> "HEALTHISSUE"
      [] s \in {"HealthRestored"} -> "HEALTHRESTORED"
      [] s \in {"ApplicationUpdate"} -> "APPLICATIONUPDATE"
      [] s \in {"ManualInteractionRequired"} -> "MANUALINTERACTIONREQUIRED"
      [] s \in {"Test", "test"} -> "TEST"
      [] s \in {"Unknown", "unknown"} -> "UNKNOWN"
      [] s \in {"Bogus"} -> "BOGUS"
      [] s \in {"Downloads"} -> "DOWNLOADS"
      [] OTHER -> s

\* str.upper() on the strings the model uses
Upper(s) ==
    CASE s \in {"Grab"} -> "GRAB"
      [] s \in {"Download", "download", "DOWNLOAD"} -> "DOWNLOAD"
      [] s \in {" Download"} -> " DOWNLOAD"
      [] s \in {"Rename"} -> "RENAME"
      [] s \in {"EpisodeFileDelete", "episodefiledelete"} -> "EPISODEFILEDELETE"
      [] s \in {"SeriesAdd"} -> "SERIESADD"
      [] s \in {"SeriesDelete"} -> "SERIESDELETE"
      [] s \in {"HealthIssue"} -> "HEALTHISSUE"
      [] s \in {"HealthRestored"} -> "HEALTHRESTORED"
      [] s \in {"ApplicationUpdate"} -> "APPLICATIONUPDATE"
      [] s \in {"ManualInteractionRequired"} -> "MANUALINTERACTIONREQUIRED"
      [] s \in {"Test", "test"} -> "TEST"
      [] s \in {"Unknown", "unknown"} -> "UNKNOWN"
      [] s \in {"Bogus"} -> "BOGUS"
      [] s \in {"Downloads"} -> "DOWNLOADS"
      [] OTHER -> s

\* Events._missing_: the member whose value matches whatever the case, else UNKNOWN
missing(value) ==
    IF \E member \in EventValues : Upper(member) = Upper(value)
    THEN CHOOSE member \in EventValues : Upper(member) = Upper(value)
    ELSE UNKNOWN

\* Events(value): the lookup by value, then _missing_
Events(value) == IF value \in EventValues THEN value ELSE missing(value)

\* SonarrEnvironment.__post_init__ on event_type: a variable that is not set
\* or is empty leaves the default
post_init_event_type(value) ==
    IF value = None \/ value.v = "" THEN UNKNOWN ELSE Events(value.v)

\* what Sonarr_EventType may hold
EnvEvents ==
    {None} \cup {Str(s) : s \in EventValues \cup
        {"", "download", "DOWNLOAD", " Download", "Downloads", "episodefiledelete",
         "test", "unknown", "Bogus"}}

HostConfig(name, enabled, priority) ==
    [name |-> name, enabled |-> enabled, priority |-> priority]

\* cfg.hosts: up to MaxConf hosts, named by their place in the configuration
Confs ==
    UNION {{[i \in 1..n |-> HostConfig(i, f[i].enabled, f[i].priority)] :
                f \in [1..n -> [enabled : BOOLEAN, priority : 0..MaxPriority]]} :
           n \in 0..MaxConf}

\* a loop that skips no host
SkippedNever(host) == FALSE

\* collect_hosts: `if not host.enabled: continue`
Skipped(host) == ~host.enabled

\* KodiClient.is_alive: the answer to JSONRPC.Ping is "pong"
is_alive(host) == host.name \in reachable

\* import of src.environment: ENV = SonarrEnvironment()
ParseEnvironment ==
    /\ mpc = "import"
    /\ event_type' = post_init_event_type(env_event)
    /\ \E b \in BOOLEAN : is_upgrade' = b
    /\ mpc' = "collect"
    /\ UNCHANGED <<conf, reachable, clients, probed, ci, env_event, exit_status,
                   dispatched, poolVars, cfg, gateVars, playVars, handlerVars,
                   modelVars, notifyVars, scanVars, restVars>>

\* collect_hosts: one turn of the loop over cfg.hosts
CollectHost ==
    /\ mpc = "collect"
    /\ ci < Len(conf)
    /\ LET host == conf[ci + 1] IN
        IF Skipped(host)
        THEN UNCHANGED <<clients, probed>>
        ELSE /\ probed' = probed \cup {host.name}
             /\ clients' = IF is_alive(host) THEN Append(clients, host) ELSE clients
    /\ ci' = ci + 1
    /\ UNCHANGED <<conf, reachable, env_event, event_type, is_upgrade, mpc,
                   exit_status, dispatched, poolVars, cfg, gateVars, playVars,
                   handlerVars, modelVars, notifyVars, scanVars, restVars>>

\* collect_hosts returns client_lst; main builds the EventHandler over it
CollectReturn ==
    /\ mpc = "collect"
    /\ ci = Len(conf)
    /\ mpc' = "dispatch"
    /\ UNCHANGED <<conf, reachable, clients, probed, ci, env_event, event_type,
                   is_upgrade, exit_status, dispatched, poolVars, cfg, gateVars,
                   playVars, handlerVars, modelVars, notifyVars, scanVars, restVars>>

\* main: the method the match statement calls for an event ("none": case _)
HandlerOf(ev, upgrade) ==
    CASE ev = "Grab" -> "grab"
      [] ev = "Download" -> IF upgrade THEN "download_upgrade" ELSE "download_new"
      [] ev = "Rename" -> "rename"
      [] ev = "EpisodeFileDelete" -> "delete"
      [] ev = "SeriesAdd" -> "series_add"
      [] ev = "SeriesDelete" -> "series_delete"
      [] ev = "HealthIssue" -> "health_issue"
      [] ev = "HealthRestored" -> "health_restored"
      [] ev = "ApplicationUpdate" -> "application_update"
      [] ev = "ManualInteractionRequired" -> "manual_interaction_required"
      [] ev = "Test" -> "test"
      [] OTHER -> "none"

\* main, from `if len(clients) == 0` on: a plain return with no client, else
\* the match on ENV.event_type; the handler called returns or raises
Dispatch ==
    /\ mpc = "dispatch"
    /\ IF Len(clients) = 0
       THEN /\ mpc' = "no_clients"
            /\ exit_status' = PyInt(0)
            /\ UNCHANGED dispatched
       ELSE IF HandlerOf(event_type, is_upgrade) # "none"
       THEN /\ dispatched' = HandlerOf(event_type, is_upgrade)
            /\ \E out \in {"returned", "crashed"} :
                /\ mpc' = out
                /\ exit_status' = IF out = "returned" THEN PyInt(0) ELSE PyInt(1)
       ELSE /\ mpc' = "unknown_event"
            /\ exit_status' = PyInt(1)
            /\ UNCHANGED dispatched
    /\ UNCHANGED <<conf, reachable, clients, probed, ci, env_event, event_type,
                   is_upgrade, poolVars, cfg, gateVars, playVars, handlerVars,
                   modelVars, notifyVars, scanVars, restVars>>

MainEnded == mpc \in {"no_clients", "unknown_event", "returned", "crashed"}

InitMain ==
    /\ hosts = [i \in 1..NumHosts |-> i]
    /\ library_scanned = [h \in Hosts |-> FALSE]
    /\ players = [h \in Hosts |-> <<>>]
    /\ ManagerIdle
    /\ cfg = DefaultCfg
    /\ GateOff
    /\ PlayOff
    /\ HandlerOff
    /\ ModelsOff
    /\ conf \in Confs
    /\ reachable \in SUBSET (1..Len(conf))
    /\ clients = <<>>
    /\ probed = {}
    /\ ci = 0
    /\ env_event \in EnvEvents
    /\ event_type = UNKNOWN
    /\ is_upgrade = FALSE
    /\ mpc = "import"
    /\ exit_status = None
    /\ dispatched = "none"
    /\ NotifyOff
    /\ ScanOff
    /\ RestOff

NextMain == ParseEnvironment \/ CollectHost \/ CollectReturn \/ Dispatch

SpecMain == InitMain /\ [][NextMain]_vars

\* ------------------------------------------------ KodiResponse.is_valid
Dict(keys) == [t |-> "dict", keys |-> keys]

\* results a host's answer may carry
Results ==
    {None, Str("OK"), Str("pong"), Str("tvshows"), List(<<>>), List(<<1>>), List(<<1, 2>>),
     PyInt(0), PyInt(1), Bool(TRUE)}
    \cup {Dict(k) : k \in SUBSET {"tvshows", "episodes", "OK"}}

\* KodiResponseError, or None
Errors == {None, [t |-> "KodiResponseError", code |-> -32602]}

\* the expected_str of the callers, None by default
Expected == {None, Str("OK"), Str("pong"), Str("tvshows"), Str("episodes")}

KodiResponse(result, error) == [result |-> result, error |-> error]

NonEmptyAlways(lst) == TRUE

\* len(self.result) > 0
NonEmpty(lst) == Len(lst) > 0

\* KodiResponse.is_valid(expected_str)
is_valid(self, expected_str) ==
    IF self.error # None \/ self.result = None THEN FALSE
    ELSE IF self.result.t = "list" THEN NonEmpty(self.result.v)
    ELSE IF self.result.t = "str" THEN self.result = expected_str
    ELSE IF self.result.t = "dict"
    THEN IF expected_str.t = "str" /\ expected_str.v # ""
         THEN expected_str.v \in self.result.keys
         ELSE Cardinality(self.result.keys) > 0
    ELSE FALSE

ValidArgs ==
    {[t |-> "is_valid", self |-> KodiResponse(r, e), expected_str |-> x] :
        r \in Results, e \in Errors, x \in Expected}

IsValid ==
    /\ arg.t = "is_valid"
    /\ res = None
    /\ res' = Bool(is_valid(arg.self, arg.expected_str))
    /\ UNCHANGED <<arg, reqVars, poolVars, cfg, gateVars, playVars, handlerVars,
                   modelVars, mainVars, notifyVars, scanVars>>

InitValid ==
    /\ hosts = [i \in 1..PoolSize |-> i]
    /\ library_scanned = [h \in Hosts |-> FALSE]
    /\ players = [h \in Hosts |-> <<>>]
    /\ ManagerIdle
    /\ cfg = DefaultCfg
    /\ GateOff
    /\ PlayOff
    /\ HandlerOff
    /\ ModelsOff
    /\ MainOff
    /\ NotifyOff
    /\ ScanOff
    /\ arg \in ValidArgs
    /\ res = None
    /\ REQ_ID = 0
    /\ sent = <<>>

SpecValid == InitValid /\ [][IsValid]_vars

\* C34: is_valid answers True exactly for a response without error whose
\* result is a string equal to the expected string, a list with an element,
\* or a map with an entry that has the expected key when one is given.
C34_ValidShapes ==
    (arg.t = "is_valid" /\ res # None) =>
        LET r == arg.self.result
            x == arg.expected_str
        IN res.v <=>
               /\ arg.self.error = None
               /\ r # None
               /\ \/ r.t = "str" /\ x # None /\ r.v = x.v
                  \/ r.t = "list" /\ r.v # <<>>
                  \/ /\ r.t = "dict"
                     /\ r.keys # {}
                     /\ x # None => x.v \in r.keys

C34_Witness ==
    /\ arg.t = "is_valid"
    /\ res = Bool(FALSE)
    /\ arg.self.error = None
    /\ arg.self.result = Dict({"episodes"})
    /\ arg.expected_str = Str("tvshows")

\* ---------------------------------------------- claims on the queries
\* C19: get_episodes_by_dir and get_episodes_by_file end by returning; they
\* ask the hosts in list order, every host before the last one asked had
\* nothing, the list returned is the answer of the last host asked, and that
\* answer is empty only when every host was asked.
C19_FirstNonEmptyAnswer ==
    (mop \in {"get_episodes_by_dir", "get_episodes_by_file"} /\ Ended) =>
        /\ mph = "returned"
        /\ \A i \in DOMAIN log : log[i].host = hosts[i]
        /\ \A i \in 1..(Len(log) - 1) : log[i].eps = <<>>
        /\ mres = List(log[Len(log)].eps)
        /\ log[Len(log)].eps = <<>> => Len(log) = Len(hosts)

\* C20: remove_episode sends no remove request after the request of a host
\* that removed the episode, and when it has returned, it has returned True
\* exactly when some host removed the episode.
C20_RemoveStopsAtFirstRemoval ==
    mop = "remove_episode" =>
        LET s == ActReqs IN
        /\ \A i \in 1..Len(s) : s[i].out = "ok" => i = Len(s)
        /\ mph = "returned" =>
               (mres = Bool(TRUE) <=> \E i \in 1..Len(s) : s[i].out = "ok")

\* the remove requests of a remove_show call
ShowReqs == SelectSeq(log, LAMBDA e : e.method = "remove_tvshow")

\* C21: remove_show makes at most 3 passes, asks no host to remove a show
\* that a host has removed already, ends by returning, and what it returns is
\* the shows removed, each once; it returns before the third pass is over
\* only when every show found is removed.
C21_RemoveShowBounded ==
    mop = "remove_show" =>
        LET s == ShowReqs IN
        /\ passes <= RemovePasses
        /\ \A i, j \in 1..Len(s) : (i < j /\ s[i].out = "ok") => s[j].show # s[i].show
        /\ Ended => mph = "returned"
        /\ mph = "returned" =>
               /\ {mres.v[i].show_id : i \in DOMAIN mres.v} =
                      {s[i].show : i \in {j \in 1..Len(s) : s[j].out = "ok"}}
               /\ Len(mres.v) = Cardinality({mres.v[i].show_id : i \in DOMAIN mres.v})
               /\ \/ Len(mres.v) = Len(before)
                  \/ passes = RemovePasses

C14_AscendingPriority ==
    mpc \notin {"import", "collect"} =>
        \A i, j \in 1..Len(clients) :
            i < j => clients[i].priority <= clients[j].priority

\* C15: when main ends with no client in the list, it has called no handler
\* and the exit status is not zero.
C15_NoHostAborts ==
    (MainEnded /\ Len(clients) = 0) =>
        /\ dispatched = "none"
        /\ exit_status # PyInt(0)

\* values of Sonarr_EventType that name no event, whatever the case
NoEventNames == {"Bogus", "Downloads", " Download", "unknown"}

\* C16: a run whose event-type string names no event has parsed it to
\* Events.UNKNOWN and, once main has ended, has called no handler and has
\* ended in the unknown-event branch.
C16_UnknownEndsInUnknownBranch ==
    (env_event \in {Str(s) : s \in NoEventNames} /\ mpc # "import") =>
        /\ event_type = UNKNOWN
        /\ MainEnded => (dispatched = "none" /\ mpc = "unknown_event")

\* C16, amended: as above, but main ends in the unknown-event branch (exit
\* status 1) only when some client was collected; with no client it has
\* already returned from the no-client branch.
C16_UnknownEndsWithoutHandler ==
    (env_event \in {Str(s) : s \in NoEventNames} /\ mpc # "import") =>
        /\ event_type = UNKNOWN
        /\ MainEnded =>
            /\ dispatched = "none"
            /\ mpc = IF Len(clients) = 0 THEN "no_clients" ELSE "unknown_event"
            /\ mpc = "unknown_event" => exit_status = PyInt(1)

C16_Witness ==
    /\ mpc = "unknown_event"
    /\ env_event = Str(" Download")
    /\ Len(clients) > 0

\* ---------------------------------------------- claims on the handlers
\* C9: a download_new run with wait_for_nfo whose gate did not succeed ends
\* having called full_scan, without any scan_directory call, and without a
\* notify call when on_download_new is off.
C9_FallsBackToFullScan ==
    (hev = "download_new" /\ cfg.wait_for_nfo /\ gpc \in {"false", "raised"}
     /\ hpc \in {"done", "crashed"}) =>
        /\ \E i \in DOMAIN calls : calls[i].op = "full_scan"
        /\ \A i \in DOMAIN calls : calls[i].op # "scan_directory"
        /\ ~cfg.on_download_new => \A i \in DOMAIN calls : calls[i].op # "notify"

\* C22: a download_new run that has asked whether the show exists and has
\* ended made a scan call next: a full_scan with no scan_directory in the run
\* (show unknown), or a scan_directory (show known) which is followed by a
\* full_scan exactly when it brought no new episode and full_scan_fallback
\* is on.
C22_ScanChoice ==
    (hev = "download_new" /\ hpc \in {"done", "crashed"}) =>
        \A k \in DOMAIN calls :
            calls[k].op = "show_exists" =>
                /\ k < Len(calls)
                /\ calls[k + 1].op \in {"full_scan", "scan_directory"}
                /\ calls[k + 1].op = "full_scan" =>
                       \A i \in DOMAIN calls : calls[i].op # "scan_directory"
                /\ calls[k + 1].op = "scan_directory" =>
                       ((\E i \in DOMAIN calls : calls[i].op = "full_scan")
                            <=> (cfg.full_scan_fallback /\ ~Truthy(hloc.new_episodes)))

\* ------------------------- claims on download_upgrade, rename, episode_delete
IsUpgrade(reason) == reason \in {"upgrade", "Upgrade", "UPGRADE"}

CallsOf(op) == {i \in DOMAIN calls : calls[i].op = op}

\* C23: a download_upgrade or rename run that has ended after a
\* remove_episode call came back (the old record is gone from the hosts) has
\* gone on to the copy of the watched states.
C23_WatchedStateCopied ==
    (hev \in {"download_upgrade", "rename"} /\ hpc \in {"done", "crashed"}
     /\ \E k \in CallsOf("remove_episode") : k < Len(calls)) =>
        CallsOf("copy_ep_metadata") # {}

\* C24: a download_upgrade, rename or episode_delete (not an upgrade) run
\* makes at most one clean_library call, and none when a remove_episode call
\* has come back (every host has removed the record) and clean_after_update
\* is off.
C24_CleanPolicy ==
    (hev \in {"download_upgrade", "rename", "episode_delete"}
     /\ ~IsUpgrade(henv.episode_file_delete_reason)) =>
        /\ Cardinality(CallsOf("clean_library")) <= 1
        /\ ((\E k \in CallsOf("remove_episode") : k < Len(calls)) /\ ~cfg.clean_after_update)
               => CallsOf("clean_library") = {}

UpgradeOrder ==
    LET scans == CallsOf("scan_directory") \cup CallsOf("full_scan")
        cleans == CallsOf("clean_library")
        later == CallsOf("copy_ep_metadata") \cup CallsOf("start_playback")
    IN /\ hpc \in {"start", "u_gate"} => calls = <<>>
       /\ cfg.clean_after_update => \A k \in cleans : \E j \in scans : j < k
       /\ \A k \in later : (\E j \in scans : j < k) /\ (\A j \in cleans : j < k)
       /\ \A k \in CallsOf("notify") : \E j \in CallsOf("update_guis") : j < k

C31_ScannedOnlyByScanOrClean ==
    /\ \A h \in Hosts : ~library_scanned[h]
    /\ [][\A h \in Hosts :
              /\ library_scanned[h] => library_scanned'[h]
              /\ (~library_scanned[h] /\ library_scanned'[h]) =>
                     /\ mop \in ScanOps
                     /\ log' # <<>>
                     /\ log'[Len(log')].host = h
                     /\ log'[Len(log')].out = "ok"]_vars

\* ------------------- claims on series_delete and the notification-only
\* handlers
LibraryCalls == {"remove_show", "remove_episode", "clean_library", "scan_directory",
                 "full_scan", "update_guis", "copy_ep_metadata"}

\* C26: a series_delete run whose event does not report deleted files makes
\* no call to the manager at all, so no host is sent a request or a
\* notification and no host's library is marked as changed; it returns.
C26_NoFilesNoTouch ==
    (hev = "series_delete" /\ ~Truthy(henv.series_deleted_files)) =>
        /\ calls = <<>>
        /\ log = <<>>
        /\ mop = "idle"
        /\ \A h \in Range(hosts) : ~library_scanned[h]
        /\ hpc \in {"start", "done"}

C26_Witness ==
    /\ hev = "series_delete"
    /\ henv.series_deleted_files = Bool(FALSE)
    /\ cfg.on_series_delete
    /\ cfg.clean_after_update
    /\ hpc = "done"

\* C27: a notification-only handler never calls a library-changing method of
\* the manager; with its own flag off it returns without a notify call; with
\* its own flag on it returns after exactly one notify call.
C27_OwnFlagOnly ==
    hev \in NotifyOnlyEvents =>
        /\ \A i \in DOMAIN calls : calls[i].op \notin LibraryCalls
        /\ hpc \in {"done", "crashed"} =>
               /\ hpc = "done"
               /\ Cardinality(CallsOf("notify")) = IF OwnFlag(hev) THEN 1 ELSE 0

C38_DeleteLeavesNoRecord ==
    (hev = "episode_delete" /\ ~IsUpgrade(henv.episode_file_delete_reason)) =>
        ~store.exists

\* --------------------------------------------- claims on skip_active
\* the host requests that scan or clean a library
ScanMethods == {ActMethod(op) : op \in ScanOps}

\* C39: with library.skip_active on, no scan, full-scan or clean request of
\* a handler run went to a host that has an active player.
C39_ActiveHostsSkipped ==
    (hev # "none" /\ cfg.skip_active) =>
        \A i \in DOMAIN log :
            log[i].method \in ScanMethods => ~is_playing(log[i].host)

=============================================================================
